---------------------------- MODULE Spec2Model ----------------------------
(***************************************************************************)
(* Camera capture engine of whatsapp-bot-pylangchain:                      *)
(*   backend/functions/allcameras.py  AllCamerasFunction (fan-out)         *)
(*   backend/functions/camera.py      CameraFunction (selector, capturers) *)
(*                                                                         *)
(* Python values are records tagged with their type in the field py, so    *)
(* that None, str, dict and Exception values can be told apart the way     *)
(* isinstance and truthiness tell them apart.                              *)
(***************************************************************************)
EXTENDS Integers, Sequences, FiniteSets, TLC

(***************************************************************************)
(* Bounds of the model.                                                    *)
(***************************************************************************)
\* Largest number of cameras in the registry of a fan-out run.
MaxCameras == 5

\* Largest number of chunks an MJPEG stream delivers before it ends.
MaxChunks == 3

\* The MJPEG buffer limit of the scaled runs, in bytes. It stands for
\* MAX_MJPEG_BUFFER_BYTES where a buffer has to reach the limit: larger than
\* every frame the parser accepts in these runs, smaller than two chunks.
ScaledBufferLimit == 1200

\* Largest number of variables in the environment of a discovery run.
MaxEnvVars == 3

(***************************************************************************)
(* Program constants.                                                      *)
(***************************************************************************)
MAX_CONCURRENT_CAPTURES == 3

DEFAULT_PORT == "554"
DEFAULT_USERNAME == "admin"
DEFAULT_PASSWORD == ""
DEFAULT_CAMERA_TYPE == "rtsp"
DEFAULT_CAMERA_PATH == ""

(***************************************************************************)
(* Python values.                                                          *)
(***************************************************************************)
None == [py |-> "NoneType"]

IsNone(x) == x.py = "NoneType"

Str(chars) == [py |-> "str", chars |-> chars]

Exception(msg) == [py |-> "Exception", msg |-> msg]

\* isinstance(x, Exception)
IsException(x) == x.py = "Exception"

\* bool(x) for the values the capture engine tests: None is false, a str is
\* true unless empty, a dict with keys is true, an exception object is true.
Truthy(x) ==
    CASE x.py = "NoneType" -> FALSE
      [] x.py = "str" -> Len(x.chars) > 0
      [] OTHER -> TRUE

(***************************************************************************)
(* The registry self.cameras: a dict, kept as the sequence of its items in *)
(* insertion order (the order list(self.cameras.keys()) iterates in).      *)
(***************************************************************************)
Profile(ip, type, path) ==
    [IP |-> ip, PORT |-> DEFAULT_PORT, USERNAME |-> DEFAULT_USERNAME,
     PASSWORD |-> DEFAULT_PASSWORD, TYPE |-> type, PATH |-> path]

\* Registries the runs start from: the profiles _discover_cameras builds for
\* CAMERA_<NAME>_IP / _TYPE / _PATH settings of cameras of every type.
ProfileTable ==
    << [name |-> "kitchen", config |-> Profile("10.0.0.5", "mjpeg", DEFAULT_CAMERA_PATH)],
       [name |-> "front",   config |-> Profile("10.0.0.6", DEFAULT_CAMERA_TYPE, DEFAULT_CAMERA_PATH)],
       [name |-> "default", config |-> Profile("10.0.0.7", "onvif", "snapshot.jpg")],
       [name |-> "garage",  config |-> Profile("10.0.0.8", "http", DEFAULT_CAMERA_PATH)],
       [name |-> "door",    config |-> Profile("10.0.0.9", "onvif", DEFAULT_CAMERA_PATH)],
       [name |-> "yard",    config |-> Profile("10.0.0.10", "hikvision", DEFAULT_CAMERA_PATH)],
       [name |-> "attic",   config |-> Profile("10.0.0.11", "mjpeg", "/mjpeg/stream")],
       [name |-> "porch",   config |-> Profile("10.0.0.12", "rtsp", "/ignored")] >>

Registry(n) == SubSeq(ProfileTable, 1, n)

\* list(self.cameras.keys())
Keys(cams) == [i \in 1..Len(cams) |-> cams[i].name]

\* self.cameras[camera_name]
Lookup(cams, camera_name) ==
    cams[CHOOSE i \in 1..Len(cams) : cams[i].name = camera_name].config

VARIABLES
    cameras,              \* self.cameras
    pc,                   \* AllCamerasFunction.execute: "idle", "gather", "returned"
    camera_names,         \* execute's local list of keys
    semaphore,            \* the asyncio.Semaphore, None before it is made
    task,                 \* per camera index: "created", "holding", "done"
    produced,             \* per camera index: what its own task returned or raised
    results,              \* the list asyncio.gather fills
    out_of_order,         \* history: some task finished before an earlier-listed one
    successful_captures,  \* execute's local list
    failed_captures,      \* execute's local list
    response,             \* what execute returned
    sel_pc,               \* _capture_snapshot: "idle", "delegated", "returned", "raised"
    config,               \* the profile _capture_snapshot was called with
    calls,                \* the capturer calls made so far, in order
    requests,             \* the HTTP requests issued so far, in order
    cap_pc,               \* where the running capturer is suspended, "done" once it ended
    cap_result,           \* what the capturer returned (or the exception it raised)
    pattern_idx,          \* _capture_http_snapshot: index of the pattern being tried
    temp_file,            \* the RTSP temporary file: "none", "present", "deleted"
    process,              \* the FFmpeg process: "none", "running", "exited", "killed"
    image_buffer,         \* _capture_mjpeg_snapshot: image_buffer
    collecting_image,     \* _capture_mjpeg_snapshot: collecting_image
    chunks_read,          \* number of chunks the stream has delivered
    snapshot_result,      \* what _capture_snapshot returned
    last_reply,           \* history: the reply to the last GET that ended
    attempts,             \* history: per GET of a capturer, whether it gave an image
    stream_body,          \* history: the bytes the MJPEG stream has delivered
    exec_pc,              \* CameraFunction.execute: "idle", "capturing", "returned"
    kwargs,               \* the arguments execute was called with
    exec_camera_name,     \* CameraFunction.execute's local camera_name
    exec_response,        \* what CameraFunction.execute returned
    calls_done,           \* history: how many calls on the object have returned
    environ,              \* os.environ as _discover_cameras reads it
    constructed,          \* whether __init__ has built self.cameras
    ffmpeg_outcome,       \* history: how the wait for FFmpeg ended
    rejected_at,          \* history: where in the stream the first rejected candidate ended, 0 if none
    img_data,             \* _is_valid_image: its argument
    valid,                \* _is_valid_image: what it returned, None before the call
    parameters,           \* FunctionBase.parameters, the schema of a function
    call_kwargs,          \* validate_parameters: the keyword arguments given
    validated,            \* validate_parameters: what it returned or raised
    fm_pc,                \* execute_function: "idle", "awaiting", "returned", "raised"
    fm_call,              \* execute_function: the function name and what the function does
    fm_result             \* execute_function: what it returned

fanoutVars ==
    << pc, camera_names, semaphore, task, produced, results,
       out_of_order, successful_captures, failed_captures, response >>

captureVars ==
    << sel_pc, config, calls, requests, cap_pc, cap_result, pattern_idx,
       temp_file, process, image_buffer, collecting_image, chunks_read,
       snapshot_result, last_reply, attempts, stream_body >>

executeVars == << exec_pc, kwargs, exec_camera_name, exec_response, calls_done >>

discoverVars == << environ, constructed >>

\* The state of the validator, of FunctionBase.validate_parameters and of
\* FunctionManager.execute_function.
baseVars ==
    << img_data, valid, parameters, call_kwargs, validated, fm_pc, fm_call, fm_result >>

vars ==
    << cameras, fanoutVars, captureVars, executeVars, discoverVars, baseVars,
       ffmpeg_outcome, rejected_at >>

(***************************************************************************)
(* FunctionBase.format_error_response / format_success_response.           *)
(* Message texts are kept as tuples of their literal and variable parts.   *)
(***************************************************************************)
format_error_response(error_message) ==
    [py |-> "dict", success |-> FALSE, error |-> error_message,
     response |-> << "Sorry, I encountered an error: ", error_message >>]

format_success_response(result, message) ==
    [py |-> "dict", success |-> TRUE, result |-> result, response |-> message]

NoCamerasMessage == << "No cameras configured in the system" >>

NoCaptureMessage(total_cameras) ==
    << "Could not capture image from any of the ", total_cameras, " cameras" >>

(***************************************************************************)
(* AllCamerasFunction._capture_single_camera.                              *)
(*                                                                         *)
(* What one capture task ends with:                                        *)
(*   snapshot  _capture_snapshot's return value (a base64 str, or None),   *)
(*   error     text of an exception raised inside the try block, which the *)
(*             function's own handler turns into a failure dict, or None,  *)
(*   escaped   text of an exception that leaves the task (raised by the    *)
(*             handler itself), or None.                                   *)
(***************************************************************************)
\* "/9j/", the first characters of a base64 JPEG; the orchestrator only tests
\* the value's truthiness and stores it.
SnapshotData == Str(<< 47, 57, 106, 47 >>)

TaskOutcomes ==
    { [snapshot |-> SnapshotData, error |-> None, escaped |-> None],
      [snapshot |-> None, error |-> None, escaped |-> None],
      [snapshot |-> None, error |-> Exception("camera unreachable"), escaped |-> None],
      [snapshot |-> None, error |-> None, escaped |-> Exception("handler failed")] }

capture_single_camera(cams, camera_name, outcome) ==
    LET camera_config == Lookup(cams, camera_name) IN
    IF ~IsNone(outcome.escaped) THEN outcome.escaped
    ELSE IF ~IsNone(outcome.error) THEN
        [py |-> "dict", success |-> FALSE, camera_name |-> camera_name,
         error |-> outcome.error.msg]
    ELSE IF Truthy(outcome.snapshot) THEN
        [py |-> "dict", success |-> TRUE, camera_name |-> camera_name,
         camera_type |-> camera_config.TYPE, camera_ip |-> camera_config.IP,
         image_data |-> outcome.snapshot]
    ELSE
        [py |-> "dict", success |-> FALSE, camera_name |-> camera_name,
         error |-> "Failed to capture snapshot"]

(***************************************************************************)
(* AllCamerasFunction.execute.                                             *)
(***************************************************************************)
\* Faulty variant: the empty-registry check is missing.
NoCamerasNever(cams) == FALSE

\* `if not self.cameras`
NoCameras(cams) == Len(cams) = 0

\* asyncio.Semaphore(value)
Semaphore(value) == [py |-> "Semaphore", value |-> value]

\* Faulty variant: tasks run without waiting for the semaphore.
SemaphoreFreeAlways(sem) == TRUE

\* asyncio.Semaphore.acquire proceeds only while the value is positive.
SemaphoreFree(sem) == sem.value > 0

\* Faulty variant: gather without return_exceptions=True, which ends as soon
\* as one task raises.
GatherDoneFailFast ==
    \/ \A i \in DOMAIN task : task[i] = "done"
    \/ \E i \in DOMAIN task : task[i] = "done" /\ IsException(produced[i])

\* asyncio.gather(*tasks, return_exceptions=True) returns when every task has
\* ended, whatever it ended with.
GatherDone == \A i \in DOMAIN task : task[i] = "done"

\* Faulty variant: results collected in the order the tasks complete.
GatherSlotByCompletion(i) ==
    1 + Cardinality({ j \in DOMAIN task : task[j] = "done" })

\* gather puts the result of the i-th awaitable at position i of its list.
GatherSlot(i) == i

\* Faulty variant: the final else branch appends nothing.
ClassifyDropUnknown(camera_name, result) ==
    IF IsException(result) THEN
        [list |-> "failed", entry |-> [camera_name |-> camera_name, error |-> result.msg]]
    ELSE IF Truthy(result) /\ result.success THEN
        [list |-> "successful", entry |-> result]
    ELSE
        [list |-> "none", entry |-> None]

\* One turn of the loop `for i, result in enumerate(results)`: the branch taken
\* and the entry appended.
Classify(camera_name, result) ==
    IF IsException(result) THEN
        [list |-> "failed", entry |-> [camera_name |-> camera_name, error |-> result.msg]]
    ELSE IF Truthy(result) /\ result.success THEN
        [list |-> "successful", entry |-> result]
    ELSE
        [list |-> "failed",
         entry |-> [camera_name |-> camera_name, error |-> "Unknown capture failure"]]

\* The two lists after the first n turns of the loop.
RECURSIVE Partition(_, _, _)
Partition(names, res, n) ==
    IF n = 0 THEN [successful |-> << >>, failed |-> << >>]
    ELSE
        LET prev == Partition(names, res, n - 1)
            c == Classify(names[n], res[n])
        IN  [successful |-> IF c.list = "successful"
                            THEN Append(prev.successful, c.entry)
                            ELSE prev.successful,
             failed |-> IF c.list = "failed"
                        THEN Append(prev.failed, c.entry)
                        ELSE prev.failed]

\* Faulty variant: any failed camera makes the whole run a failure.
TotalFailureIfAnyFailed(success_count, failed_count) == failed_count > 0

\* `if success_count == 0`
TotalFailure(success_count, failed_count) == success_count = 0

\* The names listed in the response text.
EntryNames(entries) == [k \in 1..Len(entries) |-> entries[k].camera_name]

BuildResponse(names, successful, failed) ==
    LET total_cameras == Len(names)
        success_count == Len(successful)
        failed_count == Len(failed)
    IN  IF TotalFailure(success_count, failed_count) THEN
            format_error_response(NoCaptureMessage(total_cameras))
        ELSE
            format_success_response(
                [total_cameras |-> total_cameras,
                 successful_captures |-> successful,
                 failed_captures |-> failed,
                 success_count |-> success_count,
                 failed_count |-> failed_count],
                [successful |-> success_count, failed |-> failed_count,
                 total |-> total_cameras,
                 captured |-> EntryNames(successful),
                 failed_names |-> EntryNames(failed)])

\* execute up to its first await: the empty-registry check, the semaphore and
\* the task list.
ExecuteStart ==
    /\ pc = "idle"
    /\ IF NoCameras(cameras)
       THEN /\ response' = format_error_response(NoCamerasMessage)
            /\ pc' = "returned"
            /\ UNCHANGED << camera_names, semaphore, task, produced, results >>
       ELSE /\ camera_names' = Keys(cameras)
            /\ semaphore' = Semaphore(MAX_CONCURRENT_CAPTURES)
            /\ task' = [i \in 1..Len(cameras) |-> "created"]
            /\ produced' = [i \in 1..Len(cameras) |-> None]
            /\ results' = [i \in 1..Len(cameras) |-> None]
            /\ pc' = "gather"
            /\ UNCHANGED response
    /\ UNCHANGED << cameras, out_of_order, successful_captures, failed_captures >>
    /\ UNCHANGED << captureVars, executeVars, discoverVars, baseVars,
                    ffmpeg_outcome, rejected_at >>

\* Faulty variant: a task that ends by an exception keeps its permit.
ReleaseUnlessRaised(sem, result) ==
    IF IsException(result) THEN sem ELSE Semaphore(sem.value + 1)

\* Leaving `async with semaphore`, by return or by exception, releases the
\* permit.
Release(sem, result) == Semaphore(sem.value + 1)

\* capture_with_semaphore enters `async with semaphore`.
Acquire(i) ==
    /\ pc = "gather"
    /\ task[i] = "created"
    /\ SemaphoreFree(semaphore)
    /\ semaphore' = Semaphore(semaphore.value - 1)
    /\ task' = [task EXCEPT ![i] = "holding"]
    /\ UNCHANGED << cameras, pc, camera_names, produced, results, out_of_order,
                    successful_captures, failed_captures, response >>
    /\ UNCHANGED << captureVars, executeVars, discoverVars, baseVars,
                    ffmpeg_outcome, rejected_at >>

\* _capture_single_camera returns or raises; leaving the `async with` block
\* releases the semaphore either way, and gather records the outcome.
TaskFinish(i, outcome) ==
    /\ pc = "gather"
    /\ task[i] = "holding"
    /\ LET r == capture_single_camera(cameras, camera_names[i], outcome) IN
        /\ produced' = [produced EXCEPT ![i] = r]
        /\ results' = [results EXCEPT ![GatherSlot(i)] = r]
        /\ semaphore' = Release(semaphore, r)
    /\ task' = [task EXCEPT ![i] = "done"]
    /\ out_of_order' = (out_of_order \/ \E j \in 1..(i - 1) : task[j] # "done")
    /\ UNCHANGED << cameras, pc, camera_names, successful_captures,
                    failed_captures, response >>
    /\ UNCHANGED << captureVars, executeVars, discoverVars, baseVars,
                    ffmpeg_outcome, rejected_at >>

\* gather returns; the loop over the results, the counts and the response.
GatherReturn ==
    /\ pc = "gather"
    /\ GatherDone
    /\ LET p == Partition(camera_names, results, Len(camera_names)) IN
        /\ successful_captures' = p.successful
        /\ failed_captures' = p.failed
        /\ response' = BuildResponse(camera_names, p.successful, p.failed)
    /\ pc' = "returned"
    /\ UNCHANGED << cameras, camera_names, semaphore, task, produced, results,
                    out_of_order >>
    /\ UNCHANGED << captureVars, executeVars, discoverVars, baseVars,
                    ffmpeg_outcome, rejected_at >>

(***************************************************************************)
(* Byte buffers are sequences of numbers 0..255.                           *)
(***************************************************************************)
MIN_IMAGE_SIZE_BYTES == 100
VALID_IMAGE_SIZE_BYTES == 1000
MAX_MJPEG_BUFFER_BYTES == 5 * 1024 * 1024

\* b'\xff\xd8', b'\xff\xd9' and b'\x89PNG\r\n\x1a\n'
JPEG_SOI == << 255, 216 >>
JPEG_EOI == << 255, 217 >>
PNG_SIGNATURE == << 137, 80, 78, 71, 13, 10, 26, 10 >>

\* data[:n]
Prefix(data, n) == SubSeq(data, 1, IF n < Len(data) THEN n ELSE Len(data))

\* data.find(marker) for a two-byte marker: the 0-based index of the first
\* occurrence, -1 when there is none.
Find(data, marker) ==
    LET hits == { i \in 1..(Len(data) - 1) :
                      data[i] = marker[1] /\ data[i + 1] = marker[2] }
    IN  IF hits = {} THEN -1
        ELSE (CHOOSE i \in hits : \A j \in hits : i <= j) - 1

\* Faulty variant: the length of the buffer is not looked at.
is_valid_image_any_length(data) ==
    Prefix(data, 2) = JPEG_SOI \/ Prefix(data, 8) = PNG_SIGNATURE

\* CameraFunction._is_valid_image
is_valid_image(data) ==
    IF Len(data) < 10 THEN FALSE
    ELSE Prefix(data, 2) = JPEG_SOI \/ Prefix(data, 8) = PNG_SIGNATURE

\* The ASCII code of the base64 digit for a 6-bit value.
B64Char(v) ==
    IF v < 26 THEN 65 + v
    ELSE IF v < 52 THEN 97 + (v - 26)
    ELSE IF v < 62 THEN 48 + (v - 52)
    ELSE IF v = 62 THEN 43 ELSE 47

\* base64.b64encode(data).decode(): four characters for every three bytes,
\* the last group padded with "=" (61).
b64encode(data) ==
    LET n == Len(data)
        Byte(i) == IF i <= n THEN data[i] ELSE 0
    IN  [k \in 1..(4 * ((n + 2) \div 3)) |->
            LET g == (k - 1) \div 4
                j == (k - 1) % 4
                word == Byte(3 * g + 1) * 65536 + Byte(3 * g + 2) * 256
                        + Byte(3 * g + 3)
            IN  IF j > n - 3 * g THEN 61
                ELSE B64Char((word \div (64 ^ (3 - j))) % 64)]

(***************************************************************************)
(* What the cameras and FFmpeg may answer.                                 *)
(***************************************************************************)
\* n bytes that start with head and end with tail, zero in between.
Bytes(head, n, tail) ==
    [i \in 1..n |->
        IF i <= Len(head) THEN head[i]
        ELSE IF i > n - Len(tail) THEN tail[i - (n - Len(tail))]
        ELSE 0]

HTML_START == << 60, 104, 116, 109, 108, 62 >>

\* Bodies and file payloads: JPEG, PNG and HTML data around the size limits.
Payloads ==
    { Bytes(JPEG_SOI, 101, JPEG_EOI), Bytes(JPEG_SOI, 100, JPEG_EOI),
      Bytes(JPEG_SOI, 9, JPEG_EOI), Bytes(PNG_SIGNATURE, 101, << >>),
      Bytes(HTML_START, 101, << >>), Bytes(HTML_START, 100, << >>), << >> }

\* The outcome of one GET: a network error, or a status with a body.
HttpReplies ==
    { [error |-> "ConnectTimeout", status |-> 0, content_type |-> "", body |-> << >>] }
    \cup { [error |-> "", status |-> 404, content_type |-> "text/html",
            body |-> Bytes(HTML_START, 101, << >>)] }
    \cup { [error |-> "", status |-> 200, content_type |-> ct, body |-> b] :
             ct \in { "image/jpeg", "text/html" }, b \in Payloads }

\* response.raise_for_status() raises for 4xx and 5xx.
RaisesForStatus(reply) == reply.status >= 400

(***************************************************************************)
(* URL and credentials of a request (_capture_http_with_path and           *)
(* _capture_mjpeg_snapshot build them alike). Texts cannot be taken apart, *)
(* so startswith and the prefixing are tabulated over the paths in use.    *)
(***************************************************************************)
patterns ==
    << "/snapshot.cgi", "/snapshot.jpg", "/image/jpeg.cgi",
       "/cgi-bin/snapshot.cgi", "/stw-cgi/image.cgi" >>

\* config.get(key, default)
DictGet(d, key, default) == IF key \in DOMAIN d THEN d[key] ELSE default

\* path.startswith('/')
StartsWithSlash(path) ==
    path \in { patterns[k] : k \in 1..Len(patterns) }
             \cup { "/mjpeg/stream", "/ignored", "/video/mjpg/1" }

\* '/' + path
PrependSlash(path) ==
    CASE path = "snapshot.jpg" -> "/snapshot.jpg"

BuildRequest(ip, port, username, password, path) ==
    LET protocol == IF port = "443" THEN "https" ELSE "http"
        p == IF path # "" /\ ~StartsWithSlash(path) THEN PrependSlash(path) ELSE path
    IN  [protocol |-> protocol, host |-> ip,
         port |-> IF port \in { "80", "443" } THEN "" ELSE port,
         path |-> p,
         auth |-> IF username # "" /\ password # ""
                  THEN << username, password >> ELSE << >>]

HttpRequest(cfg) ==
    BuildRequest(cfg.IP, DictGet(cfg, "PORT", "80"), DictGet(cfg, "USERNAME", ""),
                 DictGet(cfg, "PASSWORD", ""), DictGet(cfg, "PATH", ""))

MjpegRequest(cfg) ==
    BuildRequest(cfg.IP, DictGet(cfg, "PORT", "80"), DictGet(cfg, "USERNAME", ""),
                 DictGet(cfg, "PASSWORD", ""), DictGet(cfg, "PATH", "/video/mjpg/1"))

(***************************************************************************)
(* CameraFunction._capture_http_with_path, given the reply to its GET.     *)
(***************************************************************************)
\* Faulty variant: no handler, the exception leaves the capturer.
CapturerPropagate(e) == e

\* `except Exception as e: logger.error(...)` followed by `return None`: the
\* handler every capturer wraps its body in.
CapturerCatch(e) == None

\* Faulty variant: the body is accepted by its size alone.
HttpBodyAcceptedBySizeOnly(image_data) ==
    Len(image_data) > MIN_IMAGE_SIZE_BYTES

\* `len(image_data) > MIN_IMAGE_SIZE_BYTES and self._is_valid_image(image_data)`
HttpBodyAccepted(image_data) ==
    Len(image_data) > MIN_IMAGE_SIZE_BYTES /\ is_valid_image(image_data)

capture_http_with_path(reply) ==
    IF reply.error # "" THEN CapturerCatch(Exception(reply.error))
    ELSE IF RaisesForStatus(reply) THEN CapturerCatch(Exception("HTTPStatusError"))
    ELSE IF HttpBodyAccepted(reply.body) THEN Str(b64encode(reply.body))
    ELSE None

(***************************************************************************)
(* CameraFunction._capture_http_snapshot: the loop over the patterns.      *)
(***************************************************************************)
\* `if result: return result`; an exception of the attempt is caught by the
\* loop's own handler and the loop continues.
PatternSucceeded(result) == ~IsException(result) /\ Truthy(result)

\* Faulty variant: `return None` inside the loop, after the first failure.
ProbeStopsAtFirstFailure(idx) == FALSE

\* `for pattern in patterns`: there is a next pattern to try.
ProbeGoesOn(idx) == idx < Len(patterns)

(***************************************************************************)
(* CameraFunction._capture_rtsp_snapshot.                                  *)
(***************************************************************************)
\* rtsp_url: credentials are embedded only when both are non-empty.
RtspUrl(cfg) ==
    LET username == DictGet(cfg, "USERNAME", "")
        password == DictGet(cfg, "PASSWORD", "")
    IN  [protocol |-> "rtsp", host |-> cfg.IP,
         port |-> DictGet(cfg, "PORT", DEFAULT_PORT), path |-> "/stream1",
         auth |-> IF username # "" /\ password # ""
                  THEN << username, password >> ELSE << >>]

\* How the wait for FFmpeg ends: it exits (0 leaves a payload in the file),
\* or asyncio.wait_for times out after FFMPEG_TIMEOUT_SECONDS.
FfmpegOutcomes ==
    { [how |-> "exit", returncode |-> 0, file |-> f] : f \in Payloads }
    \cup { [how |-> "exit", returncode |-> 1, file |-> << >>],
           [how |-> "timeout", returncode |-> 0, file |-> << >>] }

\* `if len(image_data) > MIN_IMAGE_SIZE_BYTES`
RtspPayloadAccepted(image_data) == Len(image_data) > MIN_IMAGE_SIZE_BYTES

\* The value returned once the wait has ended.
rtsp_result(outcome) ==
    IF outcome.how = "exit" /\ outcome.returncode = 0
       /\ RtspPayloadAccepted(outcome.file)
    THEN Str(b64encode(outcome.file))
    ELSE None

(***************************************************************************)
(* CameraFunction._capture_mjpeg_snapshot.                                 *)
(***************************************************************************)
BOUNDARY == << 45, 45, 102, 13, 10 >>

\* Chunks a multipart stream may deliver: part headers only, the head of a
\* frame, a tail that makes it 1100 bytes, a tail that makes it exactly
\* 1000 bytes, a small frame in one chunk, the tail of a small frame, a whole
\* large frame in one chunk.
Chunks ==
    { BOUNDARY,
      BOUNDARY \o Bytes(JPEG_SOI, 700, << >>),
      Bytes(<< >>, 400, JPEG_EOI) \o BOUNDARY,
      Bytes(<< >>, 300, JPEG_EOI),
      Bytes(JPEG_SOI, 24, JPEG_EOI),
      Bytes(<< >>, 6, JPEG_EOI),
      Bytes(JPEG_SOI, 1001, JPEG_EOI) }

\* What opening the stream gives: an error, an error status, a multipart
\* stream, or a single body of another content type.
StreamOpens ==
    { [error |-> "ConnectTimeout", status |-> 0, content_type |-> "", body |-> << >>],
      [error |-> "", status |-> 404, content_type |-> "text/html", body |-> << >>],
      [error |-> "", status |-> 200,
       content_type |-> "multipart/x-mixed-replace", body |-> << >>] }
    \cup { [error |-> "", status |-> 200, content_type |-> "image/jpeg", body |-> b] :
             b \in Payloads }

\* `'multipart/x-mixed-replace' in content_type`
IsMultipart(content_type) == content_type = "multipart/x-mixed-replace"

\* Faulty variant: a candidate frame is accepted whatever its size.
MjpegFrameAcceptedAnySize(complete_image) == is_valid_image(complete_image)

\* `self._is_valid_image(complete_image) and len(complete_image) > VALID_IMAGE_SIZE_BYTES`
MjpegFrameAccepted(complete_image) ==
    is_valid_image(complete_image) /\ Len(complete_image) > VALID_IMAGE_SIZE_BYTES

\* `self._is_valid_image(image_data) and len(image_data) > MIN_IMAGE_SIZE_BYTES`
MjpegDirectAccepted(image_data) ==
    is_valid_image(image_data) /\ Len(image_data) > MIN_IMAGE_SIZE_BYTES

\* Faulty variant: the buffer is never found too large.
BufferOverflowNever(buffer, limit) == FALSE

\* `if len(image_buffer) > MAX_MJPEG_BUFFER_BYTES`
BufferOverflow(buffer, limit) == Len(buffer) > limit

\* Faulty variant: the loop goes on reading after a frame was accepted.
StreamStopsNever(returned) == FALSE

\* `return encoded_data` inside the loop ends the reading of the stream.
StreamStops(returned) == Truthy(returned)

\* One turn of `async for chunk in response.aiter_bytes()`: the buffer and
\* the flag after it, and the value returned (None: the loop goes on). The
\* limit is MAX_MJPEG_BUFFER_BYTES in the program.
mjpeg_chunk(buffer, collecting, chunk, limit) ==
    IF ~collecting THEN
        LET jpeg_start == Find(chunk, JPEG_SOI) IN
        IF jpeg_start # -1
        THEN [image_buffer |-> SubSeq(chunk, jpeg_start + 1, Len(chunk)),
              collecting_image |-> TRUE, returned |-> None, rejected |-> 0]
        ELSE [image_buffer |-> buffer, collecting_image |-> FALSE, returned |-> None,
              rejected |-> 0]
    ELSE
        LET extended == buffer \o chunk
            jpeg_end == Find(extended, JPEG_EOI)
            complete_image == SubSeq(extended, 1, jpeg_end + 2)
            rejected == IF jpeg_end # -1 THEN jpeg_end + 2 ELSE 0
        IN  IF jpeg_end # -1 /\ MjpegFrameAccepted(complete_image)
            THEN [image_buffer |-> extended, collecting_image |-> TRUE,
                  returned |-> Str(b64encode(complete_image)), rejected |-> 0]
            ELSE IF BufferOverflow(extended, limit)
            THEN [image_buffer |-> << >>, collecting_image |-> FALSE, returned |-> None,
                  rejected |-> rejected]
            ELSE [image_buffer |-> extended, collecting_image |-> TRUE, returned |-> None,
                  rejected |-> rejected]

(***************************************************************************)
(* CameraFunction._capture_snapshot: the selector.                         *)
(***************************************************************************)
\* str.lower() over the type names in use.
Lower(s) ==
    CASE s = "RTSP" -> "rtsp"
      [] s = "MJPEG" -> "mjpeg"
      [] s = "HTTP" -> "http"
      [] s = "ONVIF" -> "onvif"
      [] OTHER -> s

\* Faulty variant: a type outside the four known ones is rejected.
RouteRejectUnknown(camera_type) ==
    CASE camera_type = "onvif" -> "onvif"
      [] camera_type = "mjpeg" -> "mjpeg"
      [] camera_type = "http" -> "http_generic"
      [] camera_type = "rtsp" -> "rtsp"
      [] OTHER -> "none"

\* The capturer the if/elif chain calls for a type.
Route(camera_type) ==
    CASE camera_type = "onvif" -> "onvif"
      [] camera_type = "mjpeg" -> "mjpeg"
      [] camera_type = "http" -> "http_generic"
      [] camera_type = "rtsp" -> "rtsp"
      [] OTHER -> "rtsp"

\* _capture_onvif_snapshot: `if config.get('PATH')`
OnvifRoute(cfg) ==
    IF DictGet(cfg, "PATH", "") # "" THEN "http_with_path" ELSE "http_generic"

\* Faulty variant: no handler, the exception leaves _capture_snapshot.
SelectorPropagate(e) == [raised |-> TRUE, value |-> e]

\* `except Exception as e: ... return None`
SelectorCatch(e) == [raised |-> FALSE, value |-> None]

Call(caller, callee) == [caller |-> caller, callee |-> callee]

\* Faulty variant: the pattern is written into the profile itself.
CopyWithPathInPlace(cfg, pattern) ==
    [profile |-> [cfg EXCEPT !.PATH = pattern],
     temp_config |-> [cfg EXCEPT !.PATH = pattern]]

\* temp_config = config.copy(); temp_config['PATH'] = pattern
\* The dict the capturer was given (profile) and the copy it probes with.
CopyWithPath(cfg, pattern) ==
    [profile |-> cfg, temp_config |-> [cfg EXCEPT !.PATH = pattern]]

TempConfig(cfg, pattern) == CopyWithPath(cfg, pattern).temp_config

\* The capturers are handed the registry's own dict (self.cameras[name]), not
\* a copy: what a capturer does to its config is done to the registry entry.
SameObject(cams, cfg, after) ==
    [i \in 1..Len(cams) |->
        IF cams[i].config = cfg THEN [cams[i] EXCEPT !.config = after]
        ELSE cams[i]]

\* _capture_snapshot is entered with a profile and runs, with the capturer it
\* delegates to, up to the capturer's first await.
Dispatch(cfg) ==
    /\ LET delegate == Route(Lower(DictGet(cfg, "TYPE", DEFAULT_CAMERA_TYPE)))
           target == IF delegate = "onvif" THEN OnvifRoute(cfg) ELSE delegate
           trace == IF delegate = "onvif"
                    THEN << Call("selector", "onvif"), Call("onvif", target) >>
                    ELSE IF delegate = "none" THEN << >>
                    ELSE << Call("selector", delegate) >>
           profile == IF target = "http_generic"
                      THEN CopyWithPath(cfg, patterns[1]).profile ELSE cfg
       IN  /\ config' = profile
           /\ cameras' = SameObject(cameras, cfg, profile)
           /\ sel_pc' = "delegated"
           /\ calls' = IF target = "http_generic"
                       THEN Append(trace, Call("http_generic", "http_with_path"))
                       ELSE trace
           /\ requests' =
                CASE target = "http_with_path" -> << HttpRequest(cfg) >>
                  [] target = "http_generic" ->
                        << HttpRequest(TempConfig(cfg, patterns[1])) >>
                  [] target = "mjpeg" -> << MjpegRequest(cfg) >>
                  [] target = "rtsp" -> << RtspUrl(cfg) >>
                  [] OTHER -> << >>
           /\ cap_pc' =
                CASE target = "http_with_path" -> "http_get"
                  [] target = "http_generic" -> "http_probe"
                  [] target = "mjpeg" -> "mjpeg_open"
                  [] target = "rtsp" -> "rtsp_spawn"
                  [] OTHER -> "done"
           /\ pattern_idx' = IF target = "http_generic" THEN 1 ELSE 0
           /\ temp_file' = IF target = "rtsp" THEN "present" ELSE "none"
    /\ UNCHANGED << cap_result, process, image_buffer, collecting_image,
                    chunks_read, snapshot_result, last_reply, attempts,
                    stream_body >>

\* _capture_snapshot is called for the i-th registered camera (the way
\* AllCamerasFunction._capture_single_camera calls it).
CaptureSnapshotCall(i) ==
    /\ sel_pc = "idle"
    /\ exec_pc = "idle"
    /\ Dispatch(cameras[i].config)
    /\ UNCHANGED << fanoutVars, executeVars, discoverVars, baseVars,
                    ffmpeg_outcome, rejected_at >>

\* _capture_http_with_path (reached through _capture_onvif_snapshot, whose
\* own handler is the same): the GET ends and the function returns.
HttpWithPathGet(reply) ==
    /\ cap_pc = "http_get"
    /\ LET result == capture_http_with_path(reply) IN
        /\ cap_result' = IF IsException(result) THEN CapturerCatch(result)
                         ELSE result
        /\ attempts' = Append(attempts, PatternSucceeded(result))
    /\ last_reply' = reply
    /\ cap_pc' = "done"
    /\ UNCHANGED << sel_pc, config, calls, requests, pattern_idx, temp_file,
                    process, image_buffer, collecting_image, chunks_read,
                    snapshot_result, stream_body >>
    /\ UNCHANGED << cameras, fanoutVars, executeVars, discoverVars, baseVars,
                    ffmpeg_outcome, rejected_at >>

\* _capture_http_snapshot: the attempt for the current pattern ends; the loop
\* returns its result or goes on to the next pattern.
HttpProbe(reply) ==
    /\ cap_pc = "http_probe"
    /\ LET result == capture_http_with_path(reply) IN
        /\ attempts' = Append(attempts, PatternSucceeded(result))
        /\ IF PatternSucceeded(result) THEN
                /\ cap_result' = result
                /\ cap_pc' = "done"
                /\ UNCHANGED << pattern_idx, calls, requests, config, cameras >>
           ELSE IF ProbeGoesOn(pattern_idx) THEN
                /\ pattern_idx' = pattern_idx + 1
                /\ calls' = Append(calls, Call("http_generic", "http_with_path"))
                /\ requests' = Append(requests,
                       HttpRequest(TempConfig(config, patterns[pattern_idx + 1])))
                /\ LET profile ==
                         CopyWithPath(config, patterns[pattern_idx + 1]).profile
                   IN  /\ config' = profile
                       /\ cameras' = SameObject(cameras, config, profile)
                /\ UNCHANGED << cap_pc, cap_result >>
           ELSE
                /\ cap_result' = None
                /\ cap_pc' = "done"
                /\ UNCHANGED << pattern_idx, calls, requests, config, cameras >>
    /\ last_reply' = reply
    /\ UNCHANGED << sel_pc, temp_file, process, image_buffer,
                    collecting_image, chunks_read, snapshot_result, stream_body >>
    /\ UNCHANGED << fanoutVars, executeVars, discoverVars, baseVars,
                    ffmpeg_outcome, rejected_at >>

\* _capture_rtsp_snapshot: asyncio.create_subprocess_exec ends. It starts
\* FFmpeg, or raises (no ffmpeg executable): the outer handler logs and the
\* function returns None; the inner try/finally has not been entered.
RtspSpawn(started) ==
    /\ cap_pc = "rtsp_spawn"
    /\ IF started
       THEN /\ process' = "running"
            /\ cap_pc' = "rtsp_wait"
            /\ UNCHANGED cap_result
       ELSE /\ cap_result' = CapturerCatch(Exception("FileNotFoundError"))
            /\ cap_pc' = "done"
            /\ UNCHANGED process
    /\ UNCHANGED << sel_pc, config, calls, requests, pattern_idx, temp_file,
                    image_buffer, collecting_image, chunks_read, snapshot_result,
                    last_reply, attempts, stream_body >>
    /\ UNCHANGED << cameras, fanoutVars, executeVars, discoverVars, baseVars,
                    ffmpeg_outcome, rejected_at >>

\* _capture_rtsp_snapshot: the wait for FFmpeg ends; on a timeout the process
\* is killed; the finally block unlinks the temporary file.
RtspWait(outcome) ==
    /\ cap_pc = "rtsp_wait"
    /\ process' = IF outcome.how = "timeout" THEN "killed" ELSE "exited"
    /\ cap_result' = rtsp_result(outcome)
    /\ temp_file' = "deleted"
    /\ ffmpeg_outcome' = outcome
    /\ UNCHANGED rejected_at
    /\ cap_pc' = "done"
    /\ UNCHANGED << sel_pc, config, calls, requests, pattern_idx, image_buffer,
                    collecting_image, chunks_read, snapshot_result, last_reply,
                    attempts, stream_body >>
    /\ UNCHANGED << cameras, fanoutVars, executeVars, discoverVars, baseVars >>

\* _capture_rtsp_snapshot is cancelled from outside while it awaits FFmpeg
\* (the caller's asyncio.wait_for timed out): CancelledError is raised at the
\* await. It is not an asyncio.TimeoutError, so the handler that kills the
\* process does not run; the finally block unlinks the temporary file;
\* `except Exception` does not catch it, here, in _capture_snapshot or in
\* execute, and the call is left through the exception.
RtspCancelled ==
    /\ cap_pc = "rtsp_wait"
    /\ temp_file' = "deleted"
    /\ cap_pc' = "cancelled"
    /\ sel_pc' = "cancelled"
    /\ exec_pc' = IF exec_pc = "capturing" THEN "cancelled" ELSE exec_pc
    /\ UNCHANGED << config, calls, requests, cap_result, pattern_idx, process,
                    image_buffer, collecting_image, chunks_read, snapshot_result,
                    last_reply, attempts, stream_body >>
    /\ UNCHANGED << kwargs, exec_camera_name, exec_response, calls_done >>
    /\ UNCHANGED << cameras, fanoutVars, discoverVars, baseVars,
                    ffmpeg_outcome, rejected_at >>

\* _capture_mjpeg_snapshot: the streaming GET is answered.
MjpegOpen(reply) ==
    /\ cap_pc = "mjpeg_open"
    /\ IF reply.error # "" THEN
            /\ cap_result' = CapturerCatch(Exception(reply.error))
            /\ cap_pc' = "done"
       ELSE IF RaisesForStatus(reply) THEN
            /\ cap_result' = CapturerCatch(Exception("HTTPStatusError"))
            /\ cap_pc' = "done"
       ELSE IF IsMultipart(reply.content_type) THEN
            /\ cap_pc' = "mjpeg_stream"
            /\ UNCHANGED cap_result
       ELSE
            /\ cap_result' = IF MjpegDirectAccepted(reply.body)
                             THEN Str(b64encode(reply.body)) ELSE None
            /\ cap_pc' = "done"
    /\ image_buffer' = << >>
    /\ collecting_image' = FALSE
    /\ last_reply' = reply
    /\ UNCHANGED << sel_pc, config, calls, requests, pattern_idx, temp_file,
                    process, chunks_read, snapshot_result, attempts, stream_body >>
    /\ UNCHANGED << cameras, fanoutVars, executeVars, discoverVars, baseVars,
                    ffmpeg_outcome, rejected_at >>

\* One more chunk of the stream is read while the buffer may hold `limit`
\* bytes.
ReadChunk(chunk, limit) ==
    LET after == mjpeg_chunk(image_buffer, collecting_image, chunk, limit) IN
    /\ cap_pc = "mjpeg_stream"
    /\ chunks_read < MaxChunks
    /\ image_buffer' = after.image_buffer
    /\ collecting_image' = after.collecting_image
    /\ cap_result' = after.returned
    /\ cap_pc' = IF StreamStops(after.returned) THEN "done" ELSE "mjpeg_stream"
    /\ chunks_read' = chunks_read + 1
    /\ stream_body' = stream_body \o chunk
    /\ rejected_at' =
         IF rejected_at = 0 /\ after.rejected > 0
         THEN Len(stream_body) - Len(image_buffer) + after.rejected
         ELSE rejected_at
    /\ UNCHANGED << sel_pc, config, calls, requests, pattern_idx, temp_file,
                    process, snapshot_result, last_reply, attempts >>
    /\ UNCHANGED << cameras, fanoutVars, executeVars, discoverVars, baseVars,
                    ffmpeg_outcome >>

\* _capture_mjpeg_snapshot: the stream delivers one more chunk.
MjpegChunk(chunk) == ReadChunk(chunk, MAX_MJPEG_BUFFER_BYTES)

\* The same turn of the loop with the buffer limit scaled down, so that a
\* buffer of a few chunks reaches it.
MjpegChunkScaled(chunk) == ReadChunk(chunk, ScaledBufferLimit)

\* _capture_mjpeg_snapshot: the body is exhausted and the loop falls through
\* to `return None`, or a read times out and the handler logs the error.
MjpegEnd(how) ==
    /\ cap_pc = "mjpeg_stream"
    /\ cap_result' = IF how = "exhausted" THEN None
                     ELSE CapturerCatch(Exception("ReadTimeout"))
    /\ cap_pc' = "done"
    /\ UNCHANGED << sel_pc, config, calls, requests, pattern_idx, temp_file,
                    process, image_buffer, collecting_image, chunks_read,
                    snapshot_result, last_reply, attempts, stream_body >>
    /\ UNCHANGED << cameras, fanoutVars, executeVars, discoverVars, baseVars,
                    ffmpeg_outcome, rejected_at >>

\* The capturer, on its way out through its `except Exception` handler,
\* raises from the handler itself instead of returning None.
DelegateRaises ==
    /\ sel_pc = "delegated"
    /\ cap_pc = "done"
    /\ IsNone(cap_result)
    /\ cap_result' = Exception("raised in the capturer")
    /\ UNCHANGED << sel_pc, config, calls, requests, cap_pc, pattern_idx,
                    temp_file, process, image_buffer, collecting_image,
                    chunks_read, snapshot_result, last_reply, attempts,
                    stream_body >>
    /\ UNCHANGED << cameras, fanoutVars, executeVars, discoverVars, baseVars,
                    ffmpeg_outcome, rejected_at >>

\* _capture_snapshot returns what the capturer returned, or None for an
\* exception it caught.
CaptureSnapshotReturn ==
    /\ sel_pc = "delegated"
    /\ cap_pc = "done"
    /\ LET out == IF IsException(cap_result) THEN SelectorCatch(cap_result)
                  ELSE [raised |-> FALSE, value |-> cap_result]
       IN  /\ sel_pc' = IF out.raised THEN "raised" ELSE "returned"
           /\ snapshot_result' = out.value
    /\ UNCHANGED << config, calls, requests, cap_pc, cap_result, pattern_idx,
                    temp_file, process, image_buffer, collecting_image,
                    chunks_read, last_reply, attempts, stream_body >>
    /\ UNCHANGED << cameras, fanoutVars, executeVars, discoverVars, baseVars,
                    ffmpeg_outcome, rejected_at >>

NoReply == [error |-> "", status |-> 0, content_type |-> "", body |-> << >>]

NoOutcome == [how |-> "none", returncode |-> 0, file |-> << >>]

InitCapture ==
    /\ sel_pc = "idle"
    /\ config = None
    /\ calls = << >>
    /\ requests = << >>
    /\ cap_pc = "none"
    /\ cap_result = None
    /\ pattern_idx = 0
    /\ temp_file = "none"
    /\ process = "none"
    /\ image_buffer = << >>
    /\ collecting_image = FALSE
    /\ chunks_read = 0
    /\ snapshot_result = None
    /\ last_reply = NoReply
    /\ attempts = << >>
    /\ stream_body = << >>
    /\ ffmpeg_outcome = NoOutcome
    /\ rejected_at = 0

(***************************************************************************)
(* CameraFunction.execute.                                                 *)
(***************************************************************************)
\* FunctionBase.validate_parameters for the schema of CameraFunction: the
\* one parameter camera_name, a string, not required; a parameter that was
\* not given is left out of the result, a string is kept as it is.
validate_parameters(kw) ==
    [param_name \in { "camera_name" } \cap DOMAIN kw |-> kw[param_name]]

\* `camera_name in self.cameras`
InCameras(cams, name) == \E i \in 1..Len(cams) : cams[i].name = name

\* Faulty variant: an unknown name is never replaced by "default".
ResolveNoFallback(cams, requested) == requested

\* `if camera_name not in self.cameras and "default" in self.cameras:
\*      camera_name = "default"`
Resolve(cams, requested) ==
    IF ~InCameras(cams, requested) /\ InCameras(cams, "default")
    THEN "default" ELSE requested

\* f"Camera '{camera_name}' not found. Available: {available}"
NotFoundMessage(name, available) ==
    << "Camera '", name, "' not found. Available: ", available >>

\* f"Could not capture image from camera '{camera_name}'"
CouldNotCaptureMessage(name) ==
    << "Could not capture image from camera '", name, "'" >>

\* f"Error capturing image: {str(e)}"
ErrorCapturingMessage(e) == << "Error capturing image: ", e.msg >>

\* f"Image captured from camera '{camera_name}' ..." (the capture time is
\* left out).
CapturedText(name, cfg) ==
    << "Image captured from camera '", name, "'", cfg.TYPE, cfg.IP >>

\* Names a caller may ask for: registered ones of every camera type, and two
\* that no registry of the runs holds.
RequestedNames == { "kitchen", "front", "default", "garage", "cellar", "Front" }

\* The keyword arguments of a call: camera_name given or left out.
Kwargs == { << >> } \cup { [camera_name |-> n] : n \in RequestedNames }

\* execute is called; it runs up to the first await inside _capture_snapshot,
\* or returns an error before calling it.
CameraExecuteStart(kw) ==
    /\ exec_pc = "idle"
    /\ sel_pc = "idle"
    /\ kwargs' = kw
    /\ LET params == validate_parameters(kw)
           requested == DictGet(params, "camera_name", "default")
           name == Resolve(cameras, requested)
       IN  IF Len(cameras) = 0 THEN
                /\ exec_response' = format_error_response(NoCamerasMessage)
                /\ exec_pc' = "returned"
                /\ exec_camera_name' = requested
                /\ UNCHANGED << cameras, captureVars >>
           ELSE IF ~InCameras(cameras, name) THEN
                /\ exec_response' =
                     format_error_response(NotFoundMessage(name, Keys(cameras)))
                /\ exec_pc' = "returned"
                /\ exec_camera_name' = name
                /\ UNCHANGED << cameras, captureVars >>
           ELSE
                /\ exec_camera_name' = name
                /\ exec_pc' = "capturing"
                /\ Dispatch(Lookup(cameras, name))
                /\ UNCHANGED exec_response
    /\ UNCHANGED << calls_done, fanoutVars, discoverVars, baseVars,
                    ffmpeg_outcome, rejected_at >>

\* _capture_snapshot has ended and execute builds its response.
CameraExecuteReturn ==
    /\ exec_pc = "capturing"
    /\ sel_pc \in { "returned", "raised" }
    /\ exec_response' =
         IF sel_pc = "raised"
         THEN format_error_response(ErrorCapturingMessage(snapshot_result))
         ELSE IF Truthy(snapshot_result)
         THEN format_success_response(
                  [camera_name |-> exec_camera_name, camera_type |-> config.TYPE,
                   camera_ip |-> config.IP, image_data |-> snapshot_result],
                  CapturedText(exec_camera_name, config))
         ELSE format_error_response(CouldNotCaptureMessage(exec_camera_name))
    /\ exec_pc' = "returned"
    /\ UNCHANGED << kwargs, exec_camera_name, calls_done >>
    /\ UNCHANGED << cameras, fanoutVars, captureVars, discoverVars, baseVars,
                    ffmpeg_outcome, rejected_at >>

InitExecute ==
    /\ exec_pc = "idle"
    /\ kwargs = << >>
    /\ exec_camera_name = ""
    /\ exec_response = None
    /\ calls_done = 0

\* After construction the environment is not read again; the runs that start
\* from a built registry keep none.
InitConstructed ==
    /\ environ = << >>
    /\ constructed = TRUE

\* The validator, validate_parameters and execute_function have not been
\* called.
InitBase ==
    /\ img_data = << >>
    /\ valid = None
    /\ parameters = << >>
    /\ call_kwargs = << >>
    /\ validated = None
    /\ fm_pc = "idle"
    /\ fm_call = None
    /\ fm_result = None

InitFanout ==
    /\ pc = "idle"
    /\ camera_names = << >>
    /\ semaphore = None
    /\ task = << >>
    /\ produced = << >>
    /\ results = << >>
    /\ out_of_order = FALSE
    /\ successful_captures = << >>
    /\ failed_captures = << >>
    /\ response = None

Init ==
    /\ \E n \in 0..MaxCameras : cameras = Registry(n)
    /\ InitFanout
    /\ InitCapture
    /\ InitExecute
    /\ InitBase
    /\ InitConstructed

Next ==
    \/ ExecuteStart
    \/ \E i \in DOMAIN task : Acquire(i)
    \/ \E i \in DOMAIN task : \E outcome \in TaskOutcomes : TaskFinish(i, outcome)
    \/ GatherReturn

Spec == Init /\ [][Next]_vars

\* The same machine under the event loop's scheduling: a call that can start
\* starts, a task that can enter the semaphore does, every capture that is
\* running ends, and a gather whose tasks are all done returns.
Fairness ==
    /\ WF_vars(ExecuteStart)
    /\ \A i \in 1..MaxCameras : WF_vars(i \in DOMAIN task /\ Acquire(i))
    /\ \A i \in 1..MaxCameras :
          WF_vars(i \in DOMAIN task /\ \E outcome \in TaskOutcomes : TaskFinish(i, outcome))
    /\ WF_vars(GatherReturn)

SpecFair == Init /\ [][Next]_vars /\ Fairness

(***************************************************************************)
(* One call of _capture_snapshot, for any camera of a registry holding     *)
(* every profile of the table.                                             *)
(***************************************************************************)
InitSnapshot ==
    /\ cameras = ProfileTable
    /\ InitFanout
    /\ InitCapture
    /\ InitExecute
    /\ InitBase
    /\ InitConstructed

NextSnapshot ==
    \/ \E i \in 1..Len(cameras) : CaptureSnapshotCall(i)
    \/ \E reply \in HttpReplies : HttpWithPathGet(reply)
    \/ \E reply \in HttpReplies : HttpProbe(reply)
    \/ \E started \in BOOLEAN : RtspSpawn(started)
    \/ \E outcome \in FfmpegOutcomes : RtspWait(outcome)
    \/ RtspCancelled
    \/ \E reply \in StreamOpens : MjpegOpen(reply)
    \/ \E chunk \in Chunks : MjpegChunk(chunk)
    \/ \E how \in { "exhausted", "timeout" } : MjpegEnd(how)
    \/ DelegateRaises
    \/ CaptureSnapshotReturn

SpecCapture == InitSnapshot /\ [][NextSnapshot]_vars

(***************************************************************************)
(* One call of CameraFunction.execute, for registries with and without a   *)
(* "default" profile and for the empty registry.                           *)
(***************************************************************************)
\* ProfileTable without its "default" entry.
WithoutDefault == SelectSeq(ProfileTable, LAMBDA c : c.name # "default")

InitCamera ==
    /\ cameras \in { << >>, ProfileTable, WithoutDefault }
    /\ InitFanout
    /\ InitCapture
    /\ InitExecute
    /\ InitBase
    /\ InitConstructed

NextCamera ==
    \/ \E kw \in Kwargs : CameraExecuteStart(kw)
    \/ \E reply \in HttpReplies : HttpWithPathGet(reply)
    \/ \E reply \in HttpReplies : HttpProbe(reply)
    \/ \E started \in BOOLEAN : RtspSpawn(started)
    \/ \E outcome \in FfmpegOutcomes : RtspWait(outcome)
    \/ RtspCancelled
    \/ \E reply \in StreamOpens : MjpegOpen(reply)
    \/ \E chunk \in Chunks : MjpegChunk(chunk)
    \/ \E how \in { "exhausted", "timeout" } : MjpegEnd(how)
    \/ DelegateRaises
    \/ CaptureSnapshotReturn
    \/ CameraExecuteReturn

SpecCamera == InitCamera /\ [][NextCamera]_vars

(***************************************************************************)
(* The MJPEG capturer alone, with the buffer limit scaled down.            *)
(***************************************************************************)
MjpegCameras == SelectSeq(ProfileTable, LAMBDA c : c.config.TYPE = "mjpeg")

InitMjpegScaled ==
    /\ cameras = MjpegCameras
    /\ InitFanout
    /\ InitCapture
    /\ InitExecute
    /\ InitBase
    /\ InitConstructed

NextMjpegScaled ==
    \/ \E i \in 1..Len(cameras) : CaptureSnapshotCall(i)
    \/ \E reply \in StreamOpens : MjpegOpen(reply)
    \/ \E chunk \in Chunks : MjpegChunkScaled(chunk)
    \/ \E how \in { "exhausted", "timeout" } : MjpegEnd(how)
    \/ DelegateRaises
    \/ CaptureSnapshotReturn

SpecMjpegScaled == InitMjpegScaled /\ [][NextMjpegScaled]_vars

(***************************************************************************)
(* CameraFunction._discover_cameras. In the runs of the discovery a text   *)
(* is the sequence of its characters, so that the names of the environment *)
(* variables are taken apart the way the code does it.                     *)
(***************************************************************************)
UpperLetters ==
    << "A", "B", "C", "D", "E", "F", "G", "H", "I", "J", "K", "L", "M",
       "N", "O", "P", "Q", "R", "S", "T", "U", "V", "W", "X", "Y", "Z" >>

LowerLetters ==
    << "a", "b", "c", "d", "e", "f", "g", "h", "i", "j", "k", "l", "m",
       "n", "o", "p", "q", "r", "s", "t", "u", "v", "w", "x", "y", "z" >>

\* str.lower()
ToLower(text) ==
    [i \in 1..Len(text) |->
        IF \E k \in 1..26 : UpperLetters[k] = text[i]
        THEN LowerLetters[CHOOSE k \in 1..26 : UpperLetters[k] = text[i]]
        ELSE text[i]]

\* str.upper()
ToUpper(text) ==
    [i \in 1..Len(text) |->
        IF \E k \in 1..26 : LowerLetters[k] = text[i]
        THEN UpperLetters[CHOOSE k \in 1..26 : LowerLetters[k] = text[i]]
        ELSE text[i]]

\* The characters of the default values.
Chars(s) ==
    CASE s = "554" -> << "5", "5", "4" >>
      [] s = "admin" -> << "a", "d", "m", "i", "n" >>
      [] s = "rtsp" -> << "r", "t", "s", "p" >>
      [] s = "" -> << >>

CAMERA_ENV_PREFIX == << "C", "A", "M", "E", "R", "A", "_" >>

\* key.startswith(prefix)
StartsWith(key, prefix) ==
    Len(key) >= Len(prefix) /\ SubSeq(key, 1, Len(prefix)) = prefix

\* key[7:]
AfterPrefix(key) == SubSeq(key, 8, Len(key))

\* '_' in text
HasUnderscore(text) == \E i \in 1..Len(text) : text[i] = "_"

\* text.split('_', 1) for a text that holds an underscore.
SplitOnce(text) ==
    LET i == CHOOSE i \in 1..Len(text) :
                 text[i] = "_" /\ \A j \in 1..(i - 1) : text[j] # "_"
    IN  << SubSeq(text, 1, i - 1), SubSeq(text, i + 1, Len(text)) >>

\* os.getenv(name, default) over the items of the environment.
GetEnv(env, name, default) ==
    IF \E i \in 1..Len(env) : env[i].key = name
    THEN env[CHOOSE i \in 1..Len(env) : env[i].key = name].value
    ELSE default

\* The profile a legacy CAMERA_IP setting gives.
LegacyProfile(env) ==
    [IP |-> GetEnv(env, CAMERA_ENV_PREFIX \o << "I", "P" >>, << >>),
     PORT |-> GetEnv(env, CAMERA_ENV_PREFIX \o << "P", "O", "R", "T" >>,
                     Chars(DEFAULT_PORT)),
     USERNAME |-> GetEnv(env, CAMERA_ENV_PREFIX
                              \o << "U", "S", "E", "R", "N", "A", "M", "E" >>,
                         Chars(DEFAULT_USERNAME)),
     PASSWORD |-> GetEnv(env, CAMERA_ENV_PREFIX
                              \o << "P", "A", "S", "S", "W", "O", "R", "D" >>,
                         Chars(DEFAULT_PASSWORD)),
     TYPE |-> ToLower(GetEnv(env, CAMERA_ENV_PREFIX \o << "T", "Y", "P", "E" >>,
                             Chars(DEFAULT_CAMERA_TYPE))),
     PATH |-> GetEnv(env, CAMERA_ENV_PREFIX \o << "P", "A", "T", "H" >>,
                     Chars(DEFAULT_CAMERA_PATH))]

\* The profile a named camera starts from.
BlankProfile ==
    [IP |-> << >>, PORT |-> Chars(DEFAULT_PORT),
     USERNAME |-> Chars(DEFAULT_USERNAME), PASSWORD |-> Chars(DEFAULT_PASSWORD),
     TYPE |-> Chars(DEFAULT_CAMERA_TYPE), PATH |-> Chars(DEFAULT_CAMERA_PATH)]

\* The field of the profile an upper-cased config key names, "" for none.
FieldOf(config_key) ==
    CASE config_key = << "I", "P" >> -> "IP"
      [] config_key = << "P", "O", "R", "T" >> -> "PORT"
      [] config_key = << "U", "S", "E", "R", "N", "A", "M", "E" >> -> "USERNAME"
      [] config_key = << "P", "A", "S", "S", "W", "O", "R", "D" >> -> "PASSWORD"
      [] config_key = << "P", "A", "T", "H" >> -> "PATH"
      [] config_key = << "T", "Y", "P", "E" >> -> "TYPE"
      [] OTHER -> ""

\* Faulty variant: the name is kept as it is written in the variable.
CameraNameAsWritten(part) == part

\* `camera_name = camera_name.lower()`
CameraName(part) == ToLower(part)

\* One turn of `for key, value in os.environ.items()` on the dict cams.
DiscoverItem(cams, key, value) ==
    IF ~(StartsWith(key, CAMERA_ENV_PREFIX) /\ HasUnderscore(AfterPrefix(key)))
    THEN cams
    ELSE
        LET parts == SplitOnce(AfterPrefix(key))
            name == CameraName(parts[1])
            field == FieldOf(ToUpper(parts[2]))
            known == IF InCameras(cams, name) THEN cams
                     ELSE Append(cams, [name |-> name, config |-> BlankProfile])
            at == CHOOSE i \in 1..Len(known) : known[i].name = name
        IN  IF field = "" THEN known
            ELSE IF field = "TYPE"
            THEN [known EXCEPT ![at].config.TYPE = ToLower(value)]
            ELSE [known EXCEPT ![at].config[field] = value]

\* The loop over the first n items of the environment.
RECURSIVE DiscoverItems(_, _, _)
DiscoverItems(cams, env, n) ==
    IF n = 0 THEN cams
    ELSE DiscoverItem(DiscoverItems(cams, env, n - 1), env[n].key, env[n].value)

\* Faulty variant: every profile is kept.
HasIpAlways(cfg) == TRUE

\* `if config.get('IP')`
HasIp(cfg) == DictGet(cfg, "IP", << >>) # << >>

discover_cameras(env) ==
    LET legacy == IF GetEnv(env, CAMERA_ENV_PREFIX \o << "I", "P" >>, << >>) # << >>
                  THEN << [name |-> << "d", "e", "f", "a", "u", "l", "t" >>,
                           config |-> LegacyProfile(env)] >>
                  ELSE << >>
    IN  SelectSeq(DiscoverItems(legacy, env, Len(env)), LAMBDA c : HasIp(c.config))

\* Settings an environment may hold: legacy ones, named ones in upper and in
\* mixed case, empty addresses, a name with no address, and others.
EnvItem(key, value) == [key |-> key, value |-> value]

IpKitchen == << "1", "0", ".", "0", ".", "0", ".", "5" >>

IpFront == << "1", "0", ".", "0", ".", "0", ".", "6" >>

IpDefault == << "1", "0", ".", "0", ".", "0", ".", "7" >>

EnvPool ==
    { EnvItem(CAMERA_ENV_PREFIX \o << "I", "P" >>, IpDefault),
      EnvItem(CAMERA_ENV_PREFIX \o << "I", "P" >>, << >>),
      EnvItem(CAMERA_ENV_PREFIX \o << "T", "Y", "P", "E" >>,
              << "O", "N", "V", "I", "F" >>),
      EnvItem(CAMERA_ENV_PREFIX \o << "K", "I", "T", "C", "H", "E", "N", "_", "I", "P" >>,
              IpKitchen),
      EnvItem(CAMERA_ENV_PREFIX \o << "K", "I", "T", "C", "H", "E", "N", "_", "I", "P" >>,
              << >>),
      EnvItem(CAMERA_ENV_PREFIX
                  \o << "K", "I", "T", "C", "H", "E", "N", "_", "T", "Y", "P", "E" >>,
              << "M", "J", "P", "E", "G" >>),
      EnvItem(CAMERA_ENV_PREFIX
                  \o << "K", "I", "T", "C", "H", "E", "N", "_", "T", "Y", "P", "E" >>,
              << "m", "j", "p", "e", "g" >>),
      EnvItem(CAMERA_ENV_PREFIX \o << "F", "r", "o", "n", "t", "_", "i", "p" >>,
              IpFront),
      EnvItem(CAMERA_ENV_PREFIX
                  \o << "G", "A", "R", "A", "G", "E", "_", "P", "O", "R", "T" >>,
              << "8", "0", "8", "0" >>),
      EnvItem(CAMERA_ENV_PREFIX
                  \o << "D", "E", "F", "A", "U", "L", "T", "_", "P", "A", "T", "H" >>,
              << "/", "s", "n", "a", "p" >>),
      EnvItem(<< "H", "O", "M", "E" >>, << "/", "r", "o", "o", "t" >>) }

\* The environments of the runs: up to MaxEnvVars settings, in any order, no
\* variable set twice.
Environs ==
    { env \in UNION { [1..n -> EnvPool] : n \in 0..MaxEnvVars } :
          \A i, j \in 1..Len(env) : i # j => env[i].key # env[j].key }

\* CameraFunction.__init__: self.cameras = self._discover_cameras()
Construct ==
    /\ ~constructed
    /\ cameras' = discover_cameras(environ)
    /\ constructed' = TRUE
    /\ UNCHANGED << environ, fanoutVars, captureVars, executeVars, baseVars,
                    ffmpeg_outcome, rejected_at >>

InitDiscover ==
    /\ environ \in Environs
    /\ constructed = FALSE
    /\ cameras = << >>
    /\ InitFanout
    /\ InitCapture
    /\ InitExecute
    /\ InitBase

NextDiscover == Construct

SpecDiscover == InitDiscover /\ [][NextDiscover]_vars

(***************************************************************************)
(* Properties of the fan-out (AllCamerasFunction.execute), under Spec.     *)
(***************************************************************************)
Holding == { i \in DOMAIN task : task[i] = "holding" }

IsSuccessDict(r) == r.py = "dict" /\ r.success

\* How often camera_name is listed in entries.
Occurrences(entries, camera_name) ==
    Cardinality({ k \in 1..Len(entries) : entries[k].camera_name = camera_name })

\* Position of a name in list(self.cameras.keys()).
KeyIndex(camera_name) ==
    CHOOSE i \in 1..Len(cameras) : cameras[i].name = camera_name

InRegistryOrder(entries) ==
    \A a, b \in 1..Len(entries) :
        a < b => KeyIndex(entries[a].camera_name) < KeyIndex(entries[b].camera_name)

Returned == pc = "returned"

\* C1: during captureAll, the number of capture tasks that hold the limiter
\* and have not finished is at most 3 in every reachable state, for every
\* number of cameras and every interleaving of starts and completions.
C1_AtMostThreeActive == Cardinality(Holding) <= 3

\* Three tasks hold the limiter while another camera's task waits for it.
C1_Witness ==
    /\ Cardinality(Holding) = 3
    /\ \E i \in DOMAIN task : task[i] = "created"

\* C2: a task that fails or raises changes no other task: gather's entry for
\* every finished task is what that task's own capture produced, execute
\* returns only when all N tasks are done, and a camera is listed as a
\* success exactly when its own capture succeeded.
C2_FailureIsolated ==
    /\ \A i \in DOMAIN task : task[i] = "done" => results[i] = produced[i]
    /\ (Returned /\ Len(cameras) >= 1) =>
          \A i \in 1..Len(cameras) :
              /\ task[i] = "done"
              /\ IsSuccessDict(produced[i])
                    <=> Occurrences(successful_captures, cameras[i].name) = 1

\* The run returned with one task having raised, one having reported a
\* failure and one listed as a success.
C2_Witness ==
    /\ Returned
    /\ \E i, j, k \in DOMAIN task :
          /\ IsException(produced[i])
          /\ produced[j].py = "dict" /\ ~produced[j].success
          /\ IsSuccessDict(produced[k])
          /\ Occurrences(successful_captures, cameras[k].name) = 1

\* C3: in every report, each camera name is listed exactly once, in the
\* successes or in the failures, and success_count + failed_count =
\* total_cameras = N.
C3_Partition ==
    (Returned /\ response.success) =>
        /\ \A i \in 1..Len(cameras) :
              Occurrences(response.result.successful_captures, cameras[i].name)
              + Occurrences(response.result.failed_captures, cameras[i].name) = 1
        /\ response.result.success_count = Len(response.result.successful_captures)
        /\ response.result.failed_count = Len(response.result.failed_captures)
        /\ response.result.success_count + response.result.failed_count
              = response.result.total_cameras
        /\ response.result.total_cameras = Len(cameras)

\* A report over a success, a reported failure and a raised exception.
C3_Witness ==
    /\ Returned /\ response.success
    /\ \E i, j, k \in DOMAIN task :
          /\ IsException(produced[i])
          /\ produced[j].py = "dict" /\ ~produced[j].success
          /\ IsSuccessDict(produced[k])

\* C4: on an empty registry captureAll returns the 'no cameras configured'
\* error at once, with no semaphore made and no task started, and no report
\* ever has total_cameras = 0.
C4_EmptyRegistry ==
    /\ (pc # "idle" /\ Len(cameras) = 0) =>
          /\ Returned
          /\ response = format_error_response(NoCamerasMessage)
          /\ IsNone(semaphore)
          /\ task = << >>
    /\ (Returned /\ response.success) => response.result.total_cameras > 0

\* captureAll has returned on an empty registry.
C4_Witness == Returned /\ Len(cameras) = 0

\* C5: over a non-empty registry captureAll reports success exactly when at
\* least one camera succeeded; with no success it reports the total failure,
\* after every task has ended, with an error other than 'no cameras
\* configured'.
C5_SuccessIffAnySucceeded ==
    (Returned /\ Len(cameras) >= 1) =>
        /\ response.success <=> \E i \in DOMAIN task : IsSuccessDict(produced[i])
        /\ ~response.success =>
              /\ response.error = NoCaptureMessage(Len(cameras))
              /\ response.error # NoCamerasMessage
              /\ \A i \in DOMAIN task : task[i] = "done"

\* Five cameras, three successes and two failures: an overall success with
\* three and two entries.
C5_Witness ==
    /\ Returned /\ Len(cameras) = 5
    /\ Cardinality({ i \in DOMAIN task : IsSuccessDict(produced[i]) }) = 3
    /\ response.success
    /\ Len(response.result.successful_captures) = 3
    /\ Len(response.result.failed_captures) = 2

\* C6: the successes and the failures of the report are each listed in the
\* order of the registry's keys, whatever order the tasks completed in.
C6_RegistryOrder ==
    (Returned /\ Len(cameras) >= 1) =>
        /\ InRegistryOrder(successful_captures)
        /\ InRegistryOrder(failed_captures)
        /\ response.success =>
              /\ response.result.successful_captures = successful_captures
              /\ response.result.failed_captures = failed_captures

\* A report with two successes and two failures whose tasks did not
\* complete in registry order.
C6_Witness ==
    /\ Returned /\ response.success /\ out_of_order
    /\ Len(successful_captures) >= 2
    /\ Len(failed_captures) >= 2

(***************************************************************************)
(* Properties of _capture_snapshot and the capturers, under SpecCapture.   *)
(***************************************************************************)
\* The 6-bit value of a base64 digit given by its ASCII code.
B64Value(c) ==
    IF c >= 65 /\ c <= 90 THEN c - 65
    ELSE IF c >= 97 /\ c <= 122 THEN c - 97 + 26
    ELSE IF c >= 48 /\ c <= 57 THEN c - 48 + 52
    ELSE IF c = 43 THEN 62 ELSE 63

\* The bytes a base64 text stands for.
b64decode(chars) ==
    LET pads == Cardinality({ k \in 1..Len(chars) : chars[k] = 61 })
        Sextet(k) == IF chars[k] = 61 THEN 0 ELSE B64Value(chars[k])
    IN  [i \in 1..(3 * (Len(chars) \div 4) - pads) |->
            LET g == (i - 1) \div 3
                j == (i - 1) % 3
                word == Sextet(4 * g + 1) * 262144 + Sextet(4 * g + 2) * 4096
                        + Sextet(4 * g + 3) * 64 + Sextet(4 * g + 4)
            IN  (word \div (256 ^ (2 - j))) % 256]

CapturerDone == cap_pc = "done"

CapturerSucceeded == cap_pc = "done" /\ cap_result.py = "str"

\* The capturer that ran: the callee of the last call not made by the
\* generic HTTP loop.
Entered ==
    { k \in 1..Len(calls) :
        calls[k].caller \in { "selector", "onvif" } /\ calls[k].callee # "onvif" }

\* C7: every capture a capturer reports as successful returns image bytes
\* the Image Validator accepts, whichever capturer it is (RTSP, HTTP with
\* path, generic HTTP, MJPEG multipart, MJPEG direct, ONVIF).
C7_SuccessIsValidImage ==
    CapturerSucceeded => is_valid_image(b64decode(cap_result.chars))

\* C7, for the capturers other than RTSP: what they return as a success
\* passes the Image Validator.
C7_SuccessIsValidImageExceptRtsp ==
    (CapturerSucceeded /\ \A k \in Entered : calls[k].callee # "rtsp")
        => is_valid_image(b64decode(cap_result.chars))

\* C8: whenever _capture_rtsp_snapshot has returned after creating its
\* temporary file, the file is deleted and FFmpeg is not left running.
C8_RtspLeavesNothingBehind ==
    (CapturerDone /\ temp_file # "none") =>
        temp_file = "deleted" /\ process # "running"

\* C8, for the returns that follow a started FFmpeg: the file is deleted and
\* the process has exited or was killed.
C8_CleanupAfterSpawn ==
    (CapturerDone /\ process # "none") =>
        temp_file = "deleted" /\ process \in { "exited", "killed" }

\* The capturer the selector is to reach for a profile.
ClaimedCapturer(cfg) ==
    CASE cfg.TYPE = "mjpeg" -> "mjpeg"
      [] cfg.TYPE = "http" -> "http_generic"
      [] cfg.TYPE = "onvif" -> IF cfg.PATH # "" THEN "http_with_path" ELSE "http_generic"
      [] OTHER -> "rtsp"

\* C9: the selector makes exactly one call, and exactly one capturer is
\* entered: MJPEG for mjpeg, generic HTTP for http, HTTP-with-path for onvif
\* with a path and generic HTTP for onvif without, RTSP for rtsp and for
\* every other type; any further call is an attempt of the generic HTTP loop.
C9_Routing ==
    sel_pc # "idle" =>
        /\ Cardinality({ k \in 1..Len(calls) : calls[k].caller = "selector" }) = 1
        /\ Cardinality(Entered) = 1
        /\ \A k \in Entered : calls[k].callee = ClaimedCapturer(config)
        /\ \A k \in 1..Len(calls) :
              calls[k].caller = "http_generic" =>
                  /\ ClaimedCapturer(config) = "http_generic"
                  /\ calls[k].callee = "http_with_path"

\* A camera of a type outside {rtsp, mjpeg, http, onvif} was captured through
\* the RTSP capturer.
C9_Witness ==
    /\ sel_pc = "returned"
    /\ config.TYPE \notin { "rtsp", "mjpeg", "http", "onvif" }
    /\ calls = << Call("selector", "rtsp") >>
    /\ process = "exited"

\* C10: _capture_snapshot never raises: it returns a str or None, and None
\* whenever the capturer it delegated to raised.
C10_SelectorNeverRaises ==
    /\ sel_pc # "raised"
    /\ sel_pc = "returned" =>
          /\ snapshot_result.py \in { "NoneType", "str" }
          /\ IsException(cap_result) => IsNone(snapshot_result)

\* The capturer raised and _capture_snapshot returned None.
C10_Witness ==
    /\ sel_pc = "returned"
    /\ IsException(cap_result)
    /\ IsNone(snapshot_result)

(***************************************************************************)
(* Properties of CameraFunction.execute, under SpecCamera.                 *)
(***************************************************************************)
\* The call named a camera.
NameGiven == "camera_name" \in DOMAIN kwargs

\* The call named a camera of the registry.
GivenRegistered == NameGiven /\ InCameras(cameras, kwargs.camera_name)

ExecStarted == exec_pc \in { "capturing", "returned" }

\* _capture_snapshot was entered with the profile of the camera called name.
CapturerInvokedFor(name) ==
    /\ sel_pc # "idle"
    /\ config = Lookup(cameras, name)

\* No capturer was invoked.
NoCapturerInvoked ==
    sel_pc = "idle" /\ cap_pc = "none" /\ calls = << >> /\ requests = << >>

\* The response, success or failure, names the camera called name.
ResponseNames(r, name) ==
    IF r.success THEN r.result.camera_name = name
    ELSE r.error = CouldNotCaptureMessage(name)

\* The response is the error that lists the names of the registry.
ListsAvailable(r) ==
    /\ ~r.success
    /\ Len(r.error) = 4
    /\ r.error[1] = "Camera '"
    /\ r.error[4] = Keys(cameras)

\* A registered name is captured under its own name; an omitted or unknown
\* name is captured as "default" when that profile exists.
CapturesResolvedCamera ==
    /\ GivenRegistered =>
          /\ CapturerInvokedFor(kwargs.camera_name)
          /\ exec_pc = "returned" => ResponseNames(exec_response, kwargs.camera_name)
    /\ ~GivenRegistered /\ InCameras(cameras, "default") =>
          /\ CapturerInvokedFor("default")
          /\ exec_pc = "returned" => ResponseNames(exec_response, "default")

\* C11 as stated: a registered name is captured; an omitted or unregistered
\* name is captured as "default" when that profile exists and the result
\* names "default"; otherwise an error listing the available camera names is
\* returned and no capturer is invoked. Violated by the empty registry, whose
\* error lists nothing.
C11_NameResolution ==
    ExecStarted =>
        /\ CapturesResolvedCamera
        /\ ~GivenRegistered /\ ~InCameras(cameras, "default") =>
              /\ exec_pc = "returned"
              /\ ListsAvailable(exec_response)
              /\ NoCapturerInvoked

\* C11, amended: as stated for a registry that holds a camera; for the empty
\* registry the error is "No cameras configured in the system" and no
\* capturer is invoked.
C11_NameResolutionNonEmpty ==
    ExecStarted =>
        /\ CapturesResolvedCamera
        /\ ~GivenRegistered /\ ~InCameras(cameras, "default") =>
              /\ exec_pc = "returned"
              /\ NoCapturerInvoked
              /\ IF Len(cameras) > 0 THEN ListsAvailable(exec_response)
                 ELSE exec_response = format_error_response(NoCamerasMessage)

\* An unregistered name was asked for and "default" was captured instead.
C11_Witness ==
    /\ exec_pc = "returned"
    /\ NameGiven
    /\ kwargs.camera_name = "cellar"
    /\ exec_response.success
    /\ exec_response.result.camera_name = "default"
    /\ exec_response.result.camera_ip = Lookup(cameras, "default").IP

(***************************************************************************)
(* Properties of the MJPEG capturer, under SpecCapture and, for the buffer *)
(* limit, SpecMjpegScaled.                                                 *)
(***************************************************************************)
\* The capturer called name is the one that ran.
Ran(name) == \E k \in Entered : calls[k].callee = name

\* The MJPEG capturer ran on a multipart stream and has ended.
MultipartDone ==
    /\ Ran("mjpeg")
    /\ cap_pc = "done"
    /\ IsMultipart(last_reply.content_type)
    /\ last_reply.error = "" /\ ~RaisesForStatus(last_reply)

\* 0-based positions of the start markers of body.
SoiPositions(body) ==
    { s \in 0..(Len(body) - 2) : body[s + 1] = 255 /\ body[s + 2] = 216 }

\* 0-based position of the first end marker after the start marker at s, or
\* -1 if there is none.
NextEoi(body, s) ==
    LET ends == { e \in (s + 2)..(Len(body) - 2) :
                      body[e + 1] = 255 /\ body[e + 2] = 217 }
    IN  IF ends = { } THEN -1
        ELSE CHOOSE e \in ends : \A f \in ends : e <= f

\* Start positions of the complete frames of body larger than 1000 bytes.
LargeFrames(body) ==
    { s \in SoiPositions(body) :
          NextEoi(body, s) # -1 /\ NextEoi(body, s) + 2 - s > 1000 }

\* The first complete frame of body larger than 1000 bytes.
FirstLargeFrame(body) ==
    LET s == CHOOSE s \in LargeFrames(body) : \A t \in LargeFrames(body) : s <= t
    IN  SubSeq(body, s + 1, NextEoi(body, s) + 2)

\* C12 as stated: when the bytes a multipart stream delivered hold a complete
\* JPEG frame larger than 1000 bytes, the capturer returns the first such
\* frame, however the bytes were divided into chunks. Violated: a frame that
\* arrives whole in the last chunk is never looked at.
C12_FirstCompleteFrame ==
    MultipartDone /\ ~IsException(cap_result) /\ LargeFrames(stream_body) # { } =>
        cap_result = Str(b64encode(FirstLargeFrame(stream_body)))

\* The step reads a chunk that takes the accumulating buffer over the limit
\* and accepts no frame.
OverflowStep ==
    /\ cap_pc = "mjpeg_stream"
    /\ collecting_image
    /\ chunks_read' = chunks_read + 1
    /\ Len(image_buffer) + (Len(stream_body') - Len(stream_body)) > ScaledBufferLimit
    /\ cap_pc' = "mjpeg_stream"

\* C13 (with the limit scaled from 5 MiB to ScaledBufferLimit, every chunk
\* being smaller than the limit): when a chunk appended in the Accumulating
\* state takes the buffer over the limit and no frame is accepted, the buffer
\* is discarded and the parser is Searching again; the buffer kept between
\* chunks, while the stream is being read, never exceeds the limit.
C13_BufferBounded ==
    /\ [](cap_pc = "mjpeg_stream" => Len(image_buffer) <= ScaledBufferLimit)
    /\ [][OverflowStep => image_buffer' = << >> /\ ~collecting_image']_vars

\* Two frame heads in a row went over the limit and the buffer was dropped.
C13_Witness ==
    /\ cap_pc = "mjpeg_stream"
    /\ stream_body = BOUNDARY \o Bytes(JPEG_SOI, 700, << >>)
                       \o BOUNDARY \o Bytes(JPEG_SOI, 700, << >>)
    /\ Len(stream_body) - Len(BOUNDARY) > ScaledBufferLimit
    /\ image_buffer = << >>
    /\ ~collecting_image

\* C14: a frame the capturer returns from a multipart stream passes the
\* Image Validator and is larger than 1000 bytes; no candidate of 1000 bytes
\* or fewer, and none the validator rejects, is returned as a success.
C14_AcceptedFrameIsValidAndLarge ==
    MultipartDone /\ cap_result.py = "str" =>
        LET frame == b64decode(cap_result.chars)
        IN  is_valid_image(frame) /\ Len(frame) > 1000

\* A frame of 1100 bytes that arrived in two chunks was returned.
C14_Witness ==
    /\ MultipartDone
    /\ cap_result.py = "str"
    /\ chunks_read = 2
    /\ Len(b64decode(cap_result.chars)) = 1100

\* C15: once a frame is accepted no further chunk is read and the result
\* stays as it is; a stream that ends, by exhaustion or by a read timeout,
\* before a frame was accepted gives a failure and never the buffer.
C15_StopsAtFirstFrame ==
    /\ [][Ran("mjpeg") /\ cap_result.py = "str" =>
              /\ chunks_read' = chunks_read
              /\ stream_body' = stream_body
              /\ cap_result' = cap_result]_vars
    /\ [][cap_pc = "mjpeg_stream" /\ cap_pc' = "done" /\ chunks_read' = chunks_read =>
              IsNone(cap_result')]_vars

\* A frame was accepted while the stream had more chunks to deliver, and the
\* selector has returned it.
C15_Witness ==
    /\ MultipartDone
    /\ chunks_read < MaxChunks
    /\ cap_result.py = "str"
    /\ sel_pc = "returned"
    /\ snapshot_result = cap_result

\* The stream ended with a partly collected frame and the result is None.
C15_WitnessEnd ==
    /\ MultipartDone
    /\ collecting_image
    /\ Len(image_buffer) > 0
    /\ IsNone(cap_result)

\* C16 as stated: an mjpeg profile built with the registry's empty default
\* path is requested at /video/mjpg/1, and a profile with a configured path
\* at that path. Violated: the empty path is in the profile, so dict.get
\* never falls back to /video/mjpg/1.
C16_DefaultMjpegPath ==
    Ran("mjpeg") =>
        requests[1].path = IF config.PATH = "" THEN "/video/mjpg/1"
                           ELSE config.PATH

(***************************************************************************)
(* Properties of the HTTP capturers, under SpecCapture.                    *)
(***************************************************************************)
\* The snapshot paths in the order the claim gives them.
ClaimedPaths ==
    << "/snapshot.cgi", "/snapshot.jpg", "/image/jpeg.cgi",
       "/cgi-bin/snapshot.cgi", "/stw-cgi/image.cgi" >>

\* The last GET that ended gave an image.
LastAttemptSucceeded == attempts # << >> /\ attempts[Len(attempts)]

\* C17: the generic HTTP capturer requests the five snapshot paths in the
\* fixed order, one at a time; every attempt before the last one made has
\* failed; it returns the image of the first successful attempt and requests
\* nothing after it; it returns a failure only when all five have failed.
C17_ProbesInOrder ==
    Ran("http_generic") =>
        /\ Len(requests) = pattern_idx
        /\ Len(requests) <= 5
        /\ \A k \in 1..Len(requests) : requests[k].path = ClaimedPaths[k]
        /\ \A k \in 1..(Len(requests) - 1) : k <= Len(attempts) /\ ~attempts[k]
        /\ cap_pc = "http_probe" => Len(attempts) = Len(requests) - 1
        /\ cap_pc = "done" =>
              /\ Len(attempts) = Len(requests)
              /\ IF LastAttemptSucceeded
                 THEN cap_result = Str(b64encode(last_reply.body))
                 ELSE cap_result.py # "str" /\ Len(attempts) = 5

\* The first two paths failed and the third gave the image that is returned.
C17_Witness ==
    /\ Ran("http_generic")
    /\ cap_pc = "done"
    /\ attempts = << FALSE, FALSE, TRUE >>
    /\ Len(requests) = 3
    /\ requests[3].path = "/image/jpeg.cgi"
    /\ cap_result = Str(b64encode(last_reply.body))

\* C18: a GET of the HTTP-with-path capturer counts as a success only if the
\* reply has a success status, its body is larger than the minimum size and
\* the Image Validator accepts the body; a body that is no image by its magic
\* number is rejected whatever its status, size or content type.
C18_HttpSuccessNeedsValidImage ==
    attempts # << >> =>
        /\ LastAttemptSucceeded =>
              /\ last_reply.error = ""
              /\ last_reply.status >= 200 /\ last_reply.status < 300
              /\ Len(last_reply.body) > 100
              /\ is_valid_image(last_reply.body)
        /\ ~is_valid_image(last_reply.body) => ~LastAttemptSucceeded
        /\ Ran("http_with_path") /\ cap_pc = "done" =>
              (cap_result.py = "str" <=> LastAttemptSucceeded)

\* A 101-byte HTML page sent with status 200 and content type image/jpeg was
\* rejected.
C18_Witness ==
    /\ Ran("http_with_path")
    /\ cap_pc = "done"
    /\ last_reply.status = 200
    /\ last_reply.content_type = "image/jpeg"
    /\ last_reply.body = Bytes(HTML_START, 101, << >>)
    /\ attempts = << FALSE >>
    /\ IsNone(cap_result)

\* The step ends the running capturer.
EndsCapturer == cap_pc # "done" /\ cap_pc' = "done"

\* The capturer that ran met a failure: a network error or an error status,
\* a body that is no image, or an FFmpeg that was not started or was killed.
FailureSeen ==
    \/ /\ last_reply # NoReply
       /\ \/ last_reply.error # ""
          \/ last_reply.status >= 400
          \/ ~IsMultipart(last_reply.content_type) /\ ~is_valid_image(last_reply.body)
    \/ Ran("rtsp") /\ process \in { "none", "killed" }

\* C19: a capturer (HTTP with path, generic HTTP, MJPEG, ONVIF, RTSP) ends
\* with a return value, an image text or None, and never with an exception;
\* after an error status, a network error, an invalid body, a missing or a
\* timed-out FFmpeg the value is None.
C19_CapturersReturnFailures ==
    [][EndsCapturer =>
          /\ cap_result'.py \in { "NoneType", "str" }
          /\ FailureSeen' => IsNone(cap_result')]_vars

\* FFmpeg could not be started and the RTSP capturer has returned None.
C19_Witness ==
    /\ Ran("rtsp")
    /\ cap_pc = "done"
    /\ sel_pc = "delegated"
    /\ process = "none"
    /\ IsNone(cap_result)

(***************************************************************************)
(* Properties of the discovery, under SpecDiscover.                        *)
(***************************************************************************)
\* The environment gives the camera called name a non-empty address: the
\* legacy CAMERA_IP for "default", or a CAMERA_<NAME>_IP in any case.
AddressGiven(name) ==
    \E i \in 1..Len(environ) :
        /\ environ[i].value # << >>
        /\ \/ /\ name = << "d", "e", "f", "a", "u", "l", "t" >>
              /\ environ[i].key = << "C", "A", "M", "E", "R", "A", "_", "I", "P" >>
           \/ \E k \in 8..Len(environ[i].key) :
                /\ StartsWith(environ[i].key, << "C", "A", "M", "E", "R", "A", "_" >>)
                /\ environ[i].key[k] = "_"
                /\ \A j \in 8..(k - 1) : environ[i].key[j] # "_"
                /\ ToLower(SubSeq(environ[i].key, 8, k - 1)) = name
                /\ ToUpper(SubSeq(environ[i].key, k + 1, Len(environ[i].key)))
                     = << "I", "P" >>

\* C20: the discovered registry holds no profile with an empty address; a
\* name the environment mentions only through other keys, or with an empty
\* address, is not in it.
C20_NoProfileWithoutAddress ==
    constructed =>
        \A i \in 1..Len(cameras) :
            /\ cameras[i].config.IP # << >>
            /\ AddressGiven(cameras[i].name)

\* Of a camera with an address, one with an empty address and one with a
\* port only, the first alone is registered.
C20_Witness ==
    /\ constructed
    /\ Len(environ) = 3
    /\ \E i \in 1..3 : environ[i].value = IpFront
    /\ \E i \in 1..3 :
          environ[i] = EnvItem(CAMERA_ENV_PREFIX
                  \o << "K", "I", "T", "C", "H", "E", "N", "_", "I", "P" >>, << >>)
    /\ \E i \in 1..3 : environ[i].value = << "8", "0", "8", "0" >>
    /\ Len(cameras) = 1
    /\ cameras[1].name = << "f", "r", "o", "n", "t" >>
    /\ cameras[1].config.IP = IpFront

\* The environment gives the field of the camera called name: through a
\* CAMERA_<NAME>_<FIELD> variable in any case, or, for the "default" camera
\* built from a non-empty CAMERA_IP, through the legacy CAMERA_<FIELD>.
GivenValues(name, field) ==
    { environ[i].value : i \in
        { i \in 1..Len(environ) :
            LET key == environ[i].key IN
            /\ StartsWith(key, << "C", "A", "M", "E", "R", "A", "_" >>)
            /\ \/ \E k \in 8..Len(key) :
                    /\ key[k] = "_"
                    /\ \A j \in 8..(k - 1) : key[j] # "_"
                    /\ ToLower(SubSeq(key, 8, k - 1)) = name
                    /\ ToUpper(SubSeq(key, k + 1, Len(key))) = field
               \/ /\ name = << "d", "e", "f", "a", "u", "l", "t" >>
                  /\ SubSeq(key, 8, Len(key)) = field
                  /\ \E j \in 1..Len(environ) :
                        /\ environ[j].key = << "C", "A", "M", "E", "R", "A", "_", "I", "P" >>
                        /\ environ[j].value # << >> } }

\* The value a field has by default, as the claim gives it.
ClaimedDefault(field) ==
    CASE field = << "P", "O", "R", "T" >> -> << "5", "5", "4" >>
      [] field = << "U", "S", "E", "R", "N", "A", "M", "E" >> -> << "a", "d", "m", "i", "n" >>
      [] field = << "P", "A", "S", "S", "W", "O", "R", "D" >> -> << >>
      [] field = << "T", "Y", "P", "E" >> -> << "r", "t", "s", "p" >>
      [] field = << "P", "A", "T", "H" >> -> << >>

\* The value of a field of a profile.
FieldValue(cfg, field) ==
    CASE field = << "P", "O", "R", "T" >> -> cfg.PORT
      [] field = << "U", "S", "E", "R", "N", "A", "M", "E" >> -> cfg.USERNAME
      [] field = << "P", "A", "S", "S", "W", "O", "R", "D" >> -> cfg.PASSWORD
      [] field = << "T", "Y", "P", "E" >> -> cfg.TYPE
      [] field = << "P", "A", "T", "H" >> -> cfg.PATH

OptionalFields ==
    { << "P", "O", "R", "T" >>, << "U", "S", "E", "R", "N", "A", "M", "E" >>,
      << "P", "A", "S", "S", "W", "O", "R", "D" >>, << "T", "Y", "P", "E" >>,
      << "P", "A", "T", "H" >> }

\* The environment of the claim's example, in either order.
KitchenExample ==
    LET ip == EnvItem(<< "C", "A", "M", "E", "R", "A", "_",
                         "K", "I", "T", "C", "H", "E", "N", "_", "I", "P" >>,
                      << "1", "0", ".", "0", ".", "0", ".", "5" >>)
        type == EnvItem(<< "C", "A", "M", "E", "R", "A", "_",
                           "K", "I", "T", "C", "H", "E", "N", "_", "T", "Y", "P", "E" >>,
                        << "m", "j", "p", "e", "g" >>)
    IN  { << ip, type >>, << type, ip >> }

\* C21: every registered name is in lower case; a field the environment does
\* not give for a camera has its default (port 554, username admin, password
\* empty, type rtsp, path empty) and a given field has a given value (the
\* type in lower case); CAMERA_KITCHEN_IP = 10.0.0.5 with
\* CAMERA_KITCHEN_TYPE = mjpeg yields exactly one profile, kitchen, with host
\* 10.0.0.5, port 554 and type mjpeg.
C21_DefaultsAndLowerCase ==
    constructed =>
        /\ \A i \in 1..Len(cameras) :
              /\ cameras[i].name = ToLower(cameras[i].name)
              /\ \A field \in OptionalFields :
                    LET given == GivenValues(cameras[i].name, field)
                        value == FieldValue(cameras[i].config, field)
                    IN  IF given = { } THEN value = ClaimedDefault(field)
                        ELSE IF field = << "T", "Y", "P", "E" >>
                        THEN value \in { ToLower(g) : g \in given }
                        ELSE value \in given
        /\ environ \in KitchenExample =>
              /\ Len(cameras) = 1
              /\ cameras[1].name = << "k", "i", "t", "c", "h", "e", "n" >>
              /\ cameras[1].config.IP = << "1", "0", ".", "0", ".", "0", ".", "5" >>
              /\ cameras[1].config.PORT = << "5", "5", "4" >>
              /\ cameras[1].config.TYPE = << "m", "j", "p", "e", "g" >>
              /\ cameras[1].config.USERNAME = << "a", "d", "m", "i", "n" >>
              /\ cameras[1].config.PASSWORD = << >>
              /\ cameras[1].config.PATH = << >>

\* The registry was built from the environment of the example.
C21_Witness ==
    /\ constructed
    /\ environ \in KitchenExample
    /\ Len(cameras) = 1
    /\ cameras[1].config.PORT = << "5", "5", "4" >>

(***************************************************************************)
(* CameraFunction._is_valid_image on its own: the buffer is drawn from     *)
(* every length up to MaxBufferLen under each of the heads below.          *)
(***************************************************************************)
MaxBufferLen == 12

\* A Python bool.
Bool(b) == [py |-> "bool", value |-> b]

\* What a buffer starts with: the two signatures, signatures with one byte
\* wrong, a GIF header, HTML and zeros.
Heads ==
    { JPEG_SOI, PNG_SIGNATURE,
      << 255, 217 >>, << 216, 255 >>, << 255 >>,
      << 137, 80, 78, 71, 13, 10, 26, 11 >>, << 137, 80, 78, 71, 13, 10, 26 >>,
      << 80, 78, 71, 13, 10, 26, 10 >>,
      << 71, 73, 70, 56, 57, 97 >>, HTML_START, << >> }

Buffers == { Bytes(head, n, JPEG_EOI) : head \in Heads, n \in 0..MaxBufferLen }

IsValidImageCall ==
    /\ IsNone(valid)
    /\ valid' = Bool(is_valid_image(img_data))
    /\ UNCHANGED << cameras, fanoutVars, captureVars, executeVars, discoverVars,
                    img_data, parameters, call_kwargs, validated, fm_pc, fm_call,
                    fm_result, ffmpeg_outcome, rejected_at >>

InitValidator ==
    /\ cameras = << >>
    /\ InitFanout
    /\ InitCapture
    /\ InitExecute
    /\ InitConstructed
    /\ img_data \in Buffers
    /\ valid = None
    /\ parameters = << >>
    /\ call_kwargs = << >>
    /\ validated = None
    /\ fm_pc = "idle"
    /\ fm_call = None
    /\ fm_result = None

NextValidator == IsValidImageCall

SpecValidator == InitValidator /\ [][NextValidator]_vars

\* C22: the validator returns true exactly for the buffers of at least 10
\* bytes that start with FF D8 or with 89 50 4E 47 0D 0A 1A 0A; so no buffer
\* shorter than 10 bytes is valid and every buffer of 10 bytes or more that
\* starts with FF D8 is valid.
C22_ValidatorIff ==
    ~IsNone(valid) =>
        LET n == Len(img_data)
            jpeg == n >= 2 /\ img_data[1] = 255 /\ img_data[2] = 216
            png == /\ n >= 8
                   /\ << img_data[1], img_data[2], img_data[3], img_data[4],
                         img_data[5], img_data[6], img_data[7], img_data[8] >>
                        = << 137, 80, 78, 71, 13, 10, 26, 10 >>
        IN  /\ valid.value <=> (n >= 10 /\ (jpeg \/ png))
            /\ n < 10 => ~valid.value
            /\ (n >= 10 /\ jpeg) => valid.value

\* The validator has rejected a 9-byte buffer that starts with FF D8.
C22_Witness ==
    /\ ~IsNone(valid)
    /\ Len(img_data) = 9
    /\ img_data[1] = 255 /\ img_data[2] = 216
    /\ ~valid.value

\* The validator has accepted a 10-byte buffer that starts with FF D8.
C22_WitnessAccepted ==
    /\ ~IsNone(valid)
    /\ Len(img_data) = 10
    /\ img_data[1] = 255 /\ img_data[2] = 216
    /\ valid.value

(***************************************************************************)
(* Sequences of calls on one CameraFunction object: execute (capture), and *)
(* _capture_snapshot called directly for a registered camera, the way      *)
(* AllCamerasFunction does (captureAll). When a call has returned, the     *)
(* next one starts from fresh locals; only self.cameras lives on.          *)
(***************************************************************************)
MaxCalls == 2

CallEnded ==
    \/ exec_pc \in { "returned", "cancelled" }
    \/ exec_pc = "idle" /\ sel_pc \in { "returned", "raised", "cancelled" }

\* The caller has the return value; the function object is called again.
NextCall ==
    /\ CallEnded
    /\ calls_done < MaxCalls
    /\ calls_done' = calls_done + 1
    /\ sel_pc' = "idle"
    /\ config' = None
    /\ calls' = << >>
    /\ requests' = << >>
    /\ cap_pc' = "none"
    /\ cap_result' = None
    /\ pattern_idx' = 0
    /\ temp_file' = "none"
    /\ process' = "none"
    /\ image_buffer' = << >>
    /\ collecting_image' = FALSE
    /\ chunks_read' = 0
    /\ snapshot_result' = None
    /\ last_reply' = NoReply
    /\ attempts' = << >>
    /\ stream_body' = << >>
    /\ ffmpeg_outcome' = NoOutcome
    /\ rejected_at' = 0
    /\ exec_pc' = "idle"
    /\ kwargs' = << >>
    /\ exec_camera_name' = ""
    /\ exec_response' = None
    /\ UNCHANGED << cameras, fanoutVars, discoverVars, baseVars >>

NextCalls ==
    \/ \E kw \in Kwargs : CameraExecuteStart(kw)
    \/ \E i \in 1..Len(cameras) : CaptureSnapshotCall(i)
    \/ \E reply \in HttpReplies : HttpWithPathGet(reply)
    \/ \E reply \in HttpReplies : HttpProbe(reply)
    \/ \E started \in BOOLEAN : RtspSpawn(started)
    \/ \E outcome \in FfmpegOutcomes : RtspWait(outcome)
    \/ RtspCancelled
    \/ \E reply \in StreamOpens : MjpegOpen(reply)
    \/ \E chunk \in Chunks : MjpegChunk(chunk)
    \/ \E how \in { "exhausted", "timeout" } : MjpegEnd(how)
    \/ DelegateRaises
    \/ CaptureSnapshotReturn
    \/ CameraExecuteReturn
    \/ NextCall

SpecCalls == InitCamera /\ [][NextCalls]_vars

\* The registry the object was constructed with.
Discovered == { << >>, ProfileTable, WithoutDefault }

\* C23: no step of a capture changes the registry, so after any sequence of
\* calls every profile is the one discovered at construction; while the
\* generic HTTP capturer requests a pattern's path, the profile it was given
\* still has its own path.
C23_ProfilesImmutable ==
    /\ [](cameras \in Discovered)
    /\ [][cameras' = cameras]_vars
    /\ [](cap_pc = "http_probe" =>
            /\ requests[Len(requests)].path = patterns[pattern_idx]
            /\ \E i \in 1..Len(cameras) :
                  cameras[i].config = config /\ config.PATH = "")

\* A second call is under way after generic HTTP probing went through all
\* five patterns in the first.
C23_Witness ==
    /\ calls_done = 1
    /\ cap_pc = "http_probe"
    /\ pattern_idx = Len(patterns)
    /\ cameras \in Discovered /\ cameras # << >>

(***************************************************************************)
(* FunctionManager.execute_function: one call. Time is counted in seconds  *)
(* from the start of asyncio.wait_for; the awaited function ends (returns  *)
(* or raises) after its duration unless the timeout expires first.         *)
(***************************************************************************)
\* settings.FUNCTION_TIMEOUT
FUNCTION_TIMEOUT == 30

\* The names registered in self.functions and the names asked for.
Functions == { "camera", "allcameras" }

FunctionNames == Functions \cup { "teleport" }

\* An asyncio.TimeoutError (a subclass of Exception).
TimeoutError == [py |-> "TimeoutError", msg |-> ""]

\* What the awaited function.execute does: the value it returns or the
\* exception it raises, and the seconds it takes.
FunctionResults ==
    { [py |-> "dict", success |-> TRUE, response |-> << "done" >>],
      [py |-> "dict", success |-> FALSE, error |-> << "camera unreachable" >>],
      None }

FunctionRaises == { Exception("camera unreachable"), TimeoutError }

Durations == { 0, 1, FUNCTION_TIMEOUT - 1, FUNCTION_TIMEOUT, FUNCTION_TIMEOUT + 1 }

Behaviours ==
    { [ends |-> e, duration |-> t] :
        e \in FunctionResults \cup FunctionRaises, t \in Durations }

\* The result for a name that is not in self.functions.
NotFoundResult(function_name) ==
    [py |-> "dict",
     error |-> << "Function '", function_name, "' not found" >>,
     response |-> << "Sorry, I don't know how to ", function_name >>]

\* The result built by `except asyncio.TimeoutError`.
TimedOutResult(function_name) ==
    [py |-> "dict",
     error |-> << "Function '", function_name, "' timed out after ",
                  FUNCTION_TIMEOUT, " seconds" >>,
     response |-> << "The request timed out. Please try again." >>]

\* The result built by `except Exception as e`.
ErrorResult(function_name, e) ==
    [py |-> "dict",
     error |-> << "Error executing function '", function_name, "': ", e.msg >>,
     response |-> << "Sorry, I encountered an error while executing ",
                     function_name >>]

\* Faulty variant: no handler, what the function raises leaves
\* execute_function.
HandleNothing(function_name, ends) ==
    IF ends.py \in { "TimeoutError", "Exception" }
    THEN [raised |-> TRUE, value |-> ends]
    ELSE [raised |-> FALSE, value |-> ends]

\* The try block around asyncio.wait_for: the function's value is returned,
\* a TimeoutError (of wait_for or of the function) and any other Exception
\* are turned into results.
Handle(function_name, ends) ==
    CASE ends.py = "TimeoutError" ->
            [raised |-> FALSE, value |-> TimedOutResult(function_name)]
      [] ends.py = "Exception" ->
            [raised |-> FALSE, value |-> ErrorResult(function_name, ends)]
      [] OTHER -> [raised |-> FALSE, value |-> ends]

\* execute_function is called: an unknown name returns at once, a known one
\* starts function.execute under wait_for.
ExecuteFunctionCall(function_name, behaviour) ==
    /\ fm_pc = "idle"
    /\ IF function_name \notin Functions THEN
            /\ fm_call' = [function_name |-> function_name, behaviour |-> behaviour,
                           started |-> FALSE, elapsed |-> 0, cancelled |-> FALSE]
            /\ fm_result' = NotFoundResult(function_name)
            /\ fm_pc' = "returned"
       ELSE
            /\ fm_call' = [function_name |-> function_name, behaviour |-> behaviour,
                           started |-> TRUE, elapsed |-> 0, cancelled |-> FALSE]
            /\ fm_pc' = "awaiting"
            /\ UNCHANGED fm_result
    /\ UNCHANGED << cameras, fanoutVars, captureVars, executeVars, discoverVars,
                    img_data, valid, parameters, call_kwargs, validated,
                    ffmpeg_outcome, rejected_at >>

\* A second passes with the function still running and the timer not due.
Tick ==
    /\ fm_pc = "awaiting"
    /\ fm_call.elapsed < fm_call.behaviour.duration
    /\ fm_call.elapsed < FUNCTION_TIMEOUT
    /\ fm_call' = [fm_call EXCEPT !.elapsed = @ + 1]
    /\ UNCHANGED << fm_pc, fm_result >>
    /\ UNCHANGED << cameras, fanoutVars, captureVars, executeVars, discoverVars,
                    img_data, valid, parameters, call_kwargs, validated,
                    ffmpeg_outcome, rejected_at >>

\* function.execute ends before wait_for's timer has fired.
FunctionEnds ==
    /\ fm_pc = "awaiting"
    /\ fm_call.elapsed = fm_call.behaviour.duration
    /\ LET h == Handle(fm_call.function_name, fm_call.behaviour.ends) IN
        /\ fm_result' = h.value
        /\ fm_pc' = IF h.raised THEN "raised" ELSE "returned"
    /\ UNCHANGED fm_call
    /\ UNCHANGED << cameras, fanoutVars, captureVars, executeVars, discoverVars,
                    img_data, valid, parameters, call_kwargs, validated,
                    ffmpeg_outcome, rejected_at >>

\* wait_for's timer fires with the function still running: the function is
\* cancelled and wait_for raises asyncio.TimeoutError.
TimeoutExpires ==
    /\ fm_pc = "awaiting"
    /\ fm_call.elapsed = FUNCTION_TIMEOUT
    /\ fm_call.behaviour.duration >= FUNCTION_TIMEOUT
    /\ fm_call' = [fm_call EXCEPT !.cancelled = TRUE]
    /\ LET h == Handle(fm_call.function_name, TimeoutError) IN
        /\ fm_result' = h.value
        /\ fm_pc' = IF h.raised THEN "raised" ELSE "returned"
    /\ UNCHANGED << cameras, fanoutVars, captureVars, executeVars, discoverVars,
                    img_data, valid, parameters, call_kwargs, validated,
                    ffmpeg_outcome, rejected_at >>

NextManager ==
    \/ \E function_name \in FunctionNames, behaviour \in Behaviours :
            ExecuteFunctionCall(function_name, behaviour)
    \/ Tick
    \/ FunctionEnds
    \/ TimeoutExpires

InitManager ==
    /\ cameras = << >>
    /\ InitFanout
    /\ InitCapture
    /\ InitExecute
    /\ InitBase
    /\ InitConstructed

SpecManager == InitManager /\ [][NextManager]_vars

\* The result is a dict with a key 'error'.
IsErrorResult(result) == result.py = "dict" /\ "error" \in DOMAIN result

\* C24: execute_function never raises; a function that takes longer than
\* FUNCTION_TIMEOUT is cancelled and the result's error text contains
\* "timed out"; an unknown name gives an error result and nothing is
\* executed; an exception raised by the function gives an error result;
\* otherwise the function's own result is returned unchanged.
C24_AlwaysAResult ==
    /\ fm_pc # "raised"
    /\ fm_pc = "returned" =>
        LET name == fm_call.function_name
            b == fm_call.behaviour
        IN  /\ name \notin Functions =>
                /\ IsErrorResult(fm_result)
                /\ ~fm_call.started
            /\ (name \in Functions /\ b.duration > FUNCTION_TIMEOUT) =>
                /\ fm_call.cancelled
                /\ IsErrorResult(fm_result)
                /\ fm_result.error[3] = "' timed out after "
            /\ (name \in Functions /\ b.duration < FUNCTION_TIMEOUT
                    /\ b.ends \in FunctionRaises) =>
                /\ IsErrorResult(fm_result)
                /\ ~fm_call.cancelled
            /\ (name \in Functions /\ b.duration < FUNCTION_TIMEOUT
                    /\ b.ends \in FunctionResults) =>
                /\ fm_result = b.ends
                /\ ~fm_call.cancelled

\* A function that was still running after FUNCTION_TIMEOUT seconds has been
\* cancelled and execute_function has returned.
C24_Witness ==
    /\ fm_pc = "returned"
    /\ fm_call.started
    /\ fm_call.cancelled
    /\ fm_call.elapsed = FUNCTION_TIMEOUT
    /\ fm_call.behaviour.duration > FUNCTION_TIMEOUT

\* A function raised and execute_function returned an error result.
C24_WitnessRaised ==
    /\ fm_pc = "returned"
    /\ fm_call.started
    /\ fm_call.behaviour.ends = Exception("camera unreachable")
    /\ IsErrorResult(fm_result)
    /\ ~fm_call.cancelled

(***************************************************************************)
(* FunctionBase.validate_parameters and _coerce_parameter_type.            *)
(*                                                                         *)
(* Here a str holds a sequence of one-character strings, so that int(),    *)
(* float(), str() and lower() are computed. A float is kept in tenths      *)
(* (4.5 is 45); the texts in use have at most one digit after the point.   *)
(***************************************************************************)
PyInt(n) == [py |-> "int", value |-> n]

PyFloat(tenths) == [py |-> "float", tenths |-> tenths]

PyList(items) == [py |-> "list", items |-> items]

\* A keyword argument that was not passed.
Absent == [py |-> "absent"]

Digits == << "0", "1", "2", "3", "4", "5", "6", "7", "8", "9" >>

IsDigit(c) == \E k \in 1..10 : Digits[k] = c

DigitValue(c) == (CHOOSE k \in 1..10 : Digits[k] = c) - 1

AllDigits(t) == \A i \in 1..Len(t) : IsDigit(t[i])

\* The number written by a sequence of digits.
RECURSIVE NatValue(_)
NatValue(t) ==
    IF t = << >> THEN 0
    ELSE NatValue(SubSeq(t, 1, Len(t) - 1)) * 10 + DigitValue(t[Len(t)])

\* The digits that write a natural number.
RECURSIVE NatText(_)
NatText(n) ==
    IF n < 10 THEN << Digits[n + 1] >>
    ELSE NatText(n \div 10) \o << Digits[(n % 10) + 1] >>

\* text.strip() for blanks.
RECURSIVE Strip(_)
Strip(t) ==
    IF t # << >> /\ Head(t) = " " THEN Strip(Tail(t))
    ELSE IF t # << >> /\ t[Len(t)] = " " THEN Strip(SubSeq(t, 1, Len(t) - 1))
    ELSE t

\* A text without its sign, and the sign.
Unsigned(t) == IF t # << >> /\ t[1] \in { "+", "-" } THEN Tail(t) ELSE t

Sign(t) == IF t # << >> /\ t[1] = "-" THEN -1 ELSE 1

\* int(text) accepts blanks, a sign and digits.
IsIntegerText(chars) ==
    LET body == Unsigned(Strip(chars)) IN body # << >> /\ AllDigits(body)

\* The positions of the decimal point.
Points(t) == { i \in 1..Len(t) : t[i] = "." }

\* float(text) accepts blanks, a sign, digits and one decimal point with a
\* digit on at least one side.
IsNumberText(chars) ==
    LET body == Unsigned(Strip(chars)) IN
    /\ Cardinality(Points(body)) <= 1
    /\ \A i \in 1..Len(body) : IsDigit(body[i]) \/ body[i] = "."
    /\ \E i \in 1..Len(body) : IsDigit(body[i])

Raise(class, msg) == [ok |-> FALSE, exc |-> [py |-> class, msg |-> msg]]

Return(value) == [ok |-> TRUE, value |-> value]

\* int(value) for a value that is not an int.
py_int(value) ==
    CASE value.py = "str" ->
            IF IsIntegerText(value.chars)
            THEN LET t == Strip(value.chars)
                 IN  Return(PyInt(Sign(t) * NatValue(Unsigned(t))))
            ELSE Raise("ValueError", << "invalid literal for int()" >>)
      [] value.py = "float" ->
            Return(PyInt(IF value.tenths >= 0 THEN value.tenths \div 10
                       ELSE 0 - ((0 - value.tenths) \div 10)))
      [] OTHER -> Raise("TypeError", << "int() argument must be a string or a number" >>)

\* float(value) for a value that is neither an int nor a float.
py_float(value) ==
    CASE value.py = "str" ->
            IF IsNumberText(value.chars)
            THEN LET t == Strip(value.chars)
                     body == Unsigned(t)
                     point == IF Points(body) = { } THEN Len(body) + 1
                              ELSE CHOOSE i \in Points(body) : TRUE
                     whole == NatValue(SubSeq(body, 1, point - 1))
                     tenth == IF point < Len(body)
                              THEN DigitValue(body[point + 1]) ELSE 0
                 IN  Return(PyFloat(Sign(t) * (whole * 10 + tenth)))
            ELSE Raise("ValueError", << "could not convert string to float" >>)
      [] OTHER -> Raise("TypeError", << "float() argument must be a string or a number" >>)

\* str(value) for a value that is not a str.
RECURSIVE py_str(_)
py_str(value) ==
    CASE value.py = "int" ->
            IF value.value < 0 THEN << "-" >> \o NatText(0 - value.value)
            ELSE NatText(value.value)
      [] value.py = "float" ->
            LET a == IF value.tenths < 0 THEN 0 - value.tenths ELSE value.tenths
            IN  (IF value.tenths < 0 THEN << "-" >> ELSE << >>)
                    \o NatText(a \div 10) \o << "." >> \o NatText(a % 10)
      [] value.py = "bool" ->
            IF value.value THEN << "T", "r", "u", "e" >>
            ELSE << "F", "a", "l", "s", "e" >>
      [] value.py = "list" ->
            IF Len(value.items) = 0 THEN << "[", "]" >>
            ELSE << "[" >> \o py_str(value.items[1]) \o << "]" >>

\* bool(value) for a value that is neither a bool nor a str.
py_bool(value) ==
    CASE value.py = "int" -> value.value # 0
      [] value.py = "float" -> value.tenths # 0
      [] value.py = "list" -> Len(value.items) > 0

\* isinstance(value, int): a bool is an int.
IsInstanceInt(value) == value.py \in { "int", "bool" }

\* FunctionBase._coerce_parameter_type
coerce_parameter_type(param_name, value, param_schema) ==
    LET expected_type == DictGet(param_schema, "type", "string") IN
    IF expected_type = "string" /\ value.py # "str"
    THEN Return(Str(py_str(value)))
    ELSE IF expected_type = "integer" /\ ~IsInstanceInt(value)
    THEN LET r == py_int(value) IN
         IF ~r.ok /\ r.exc.py = "ValueError"
         THEN Raise("ValueError",
                    << "Parameter '", param_name, "' must be an integer" >>)
         ELSE r
    ELSE IF expected_type = "number" /\ ~IsInstanceInt(value) /\ value.py # "float"
    THEN LET r == py_float(value) IN
         IF ~r.ok /\ r.exc.py = "ValueError"
         THEN Raise("ValueError",
                    << "Parameter '", param_name, "' must be a number" >>)
         ELSE r
    ELSE IF expected_type = "boolean" /\ value.py # "bool"
    THEN IF value.py = "str"
         THEN Return(Bool(ToLower(value.chars) \in
                  { << "t", "r", "u", "e" >>, << "1" >>, << "y", "e", "s" >>,
                    << "o", "n" >> }))
         ELSE Return(Bool(py_bool(value)))
    ELSE Return(value)

\* kwargs.get(param_name)
KwargsGet(kw, param_name) ==
    IF param_name \in DOMAIN kw THEN kw[param_name] ELSE None

\* Faulty variant: no parameter counts as required.
IsRequiredNever(param_schema) == FALSE

\* param_schema.get("required", False)
IsRequired(param_schema) == DictGet(param_schema, "required", FALSE)

\* The loop of validate_parameters from the i-th schema entry on, with the
\* dict built so far; the result is the dict returned or the exception raised.
RECURSIVE ValidateFrom(_, _, _, _)
ValidateFrom(schema, kw, i, done) ==
    IF i > Len(schema) THEN [py |-> "dict", items |-> done]
    ELSE LET param_name == schema[i].name
             param_schema == schema[i].schema
             value == KwargsGet(kw, param_name)
         IN  IF IsRequired(param_schema) /\ IsNone(value)
             THEN [py |-> "ValueError",
                   msg |-> << "Required parameter '", param_name, "' is missing" >>]
             ELSE IF ~IsNone(value)
             THEN LET r == coerce_parameter_type(param_name, value, param_schema)
                  IN  IF r.ok
                      THEN ValidateFrom(schema, kw, i + 1,
                               [n \in DOMAIN done \cup { param_name } |->
                                   IF n = param_name THEN r.value ELSE done[n]])
                      ELSE r.exc
             ELSE ValidateFrom(schema, kw, i + 1, done)

\* FunctionBase.validate_parameters for self.parameters = schema.
validate_parameters_of(schema, kw) == ValidateFrom(schema, kw, 1, << >>)

\* The values a caller passes.
ArgumentValues ==
    { None, Str(<< "4", "2" >>), Str(<< " ", "-", "8" >>), Str(<< "a", "b", "c" >>),
      Str(<< "4", ".", "5" >>), Str(<< >>), Str(<< "Y", "e", "s" >>),
      PyInt(7), PyInt(0), PyFloat(45), Bool(TRUE), PyList(<< PyInt(1) >>) }

\* The schema of one parameter: a type or none, required or not said.
ParamSchemas ==
    { [type |-> t, required |-> TRUE] :
        t \in { "string", "integer", "number", "boolean", "array" } }
    \cup { [type |-> t] :
        t \in { "string", "integer", "number", "boolean", "array" } }
    \cup { [required |-> TRUE], << >> }

\* self.parameters: two parameters, in the order of the dict.
Schemas ==
    { << [name |-> "first", schema |-> a], [name |-> "second", schema |-> b] >> :
        a \in ParamSchemas,
        b \in { [type |-> "integer"], [type |-> "boolean", required |-> TRUE],
                [type |-> "string", required |-> TRUE], [required |-> FALSE] } }

\* **kwargs: the two parameters, each passed or not, and perhaps a keyword
\* the schema does not declare.
KwargsOf(first, second, extra) ==
    LET given == [n \in { "first", "second", "extra" } |->
                     IF n = "first" THEN first
                     ELSE IF n = "second" THEN second ELSE extra]
    IN  [n \in { m \in DOMAIN given : given[m] # Absent } |-> given[n]]

CallKwargs ==
    { KwargsOf(first, second, extra) :
        first \in ArgumentValues \cup { Absent },
        second \in ArgumentValues \cup { Absent },
        extra \in { Absent, PyInt(7) } }

ValidateParametersCall ==
    /\ IsNone(validated)
    /\ validated' = validate_parameters_of(parameters, call_kwargs)
    /\ UNCHANGED << cameras, fanoutVars, captureVars, executeVars, discoverVars,
                    img_data, valid, parameters, call_kwargs, fm_pc, fm_call,
                    fm_result, ffmpeg_outcome, rejected_at >>

InitValidate ==
    /\ cameras = << >>
    /\ InitFanout
    /\ InitCapture
    /\ InitExecute
    /\ InitConstructed
    /\ img_data = << >>
    /\ valid = None
    /\ parameters \in Schemas
    /\ call_kwargs \in CallKwargs
    /\ validated = None
    /\ fm_pc = "idle"
    /\ fm_call = None
    /\ fm_result = None

NextValidate == ValidateParametersCall

SpecValidate == InitValidate /\ [][NextValidate]_vars

\* The call passes a value other than None for the parameter.
Supplied(param_name) ==
    param_name \in DOMAIN call_kwargs /\ ~IsNone(call_kwargs[param_name])

Declared == { parameters[i].name : i \in 1..Len(parameters) }

DeclaredType(i) == DictGet(parameters[i].schema, "type", "string")

MarkedRequired(i) ==
    /\ "required" \in DOMAIN parameters[i].schema
    /\ parameters[i].schema.required

\* The i-th schema parameter is marked required and absent.
RequiredMissing(i) == MarkedRequired(i) /\ ~Supplied(parameters[i].name)

\* The value supplied for the i-th schema parameter, of type integer or
\* number, is a text that does not write such a number.
Unconvertible(i) ==
    /\ Supplied(parameters[i].name)
    /\ call_kwargs[parameters[i].name].py = "str"
    /\ \/ /\ DeclaredType(i) = "integer"
          /\ ~IsIntegerText(call_kwargs[parameters[i].name].chars)
       \/ /\ DeclaredType(i) = "number"
          /\ ~IsNumberText(call_kwargs[parameters[i].name].chars)

\* The value supplied for the i-th schema parameter, of type integer or
\* number, is neither a text nor a number.
Unsupported(i) ==
    /\ Supplied(parameters[i].name)
    /\ DeclaredType(i) \in { "integer", "number" }
    /\ call_kwargs[parameters[i].name].py = "list"

\* The value is of the declared type (a Python bool is an int), or, for a
\* type the coercion does not know, the value supplied.
OfDeclaredType(i, value) ==
    CASE DeclaredType(i) = "string" -> value.py = "str"
      [] DeclaredType(i) = "integer" -> value.py \in { "int", "bool" }
      [] DeclaredType(i) = "number" -> value.py \in { "int", "float", "bool" }
      [] DeclaredType(i) = "boolean" -> value.py = "bool"
      [] OTHER -> value = call_kwargs[parameters[i].name]

\* The map returned holds precisely the supplied parameters that the schema
\* declares, each of the declared type.
PreciselyTheSupplied ==
    /\ validated.py = "dict"
    /\ DOMAIN validated.items = { n \in Declared : Supplied(n) }
    /\ \A i \in 1..Len(parameters) :
          Supplied(parameters[i].name) =>
              OfDeclaredType(i, validated.items[parameters[i].name])

C25_WitnessCoerced ==
    /\ validated.py = "dict"
    /\ "extra" \in DOMAIN call_kwargs
    /\ DOMAIN validated.items = { "first", "second" }
    /\ validated.items["first"] = PyInt(0 - 8)
    /\ call_kwargs["first"].py = "str"
    /\ validated.items["second"] = Str(<< "4", ".", "5" >>)
    /\ call_kwargs["second"].py = "float"

\* Start positions of the complete frames of the delivered bytes that are
\* larger than 1000 bytes and begin where the first rejected candidate ended,
\* or later.
LaterLargeFrames ==
    { s \in LargeFrames(stream_body) : rejected_at > 0 /\ s >= rejected_at }

\* C26 as stated: when the parser has rejected a candidate frame and a
\* complete JPEG frame larger than 1000 bytes arrives later in the same
\* stream, the capturer returns a frame. Violated: the rejected candidate
\* stays at the head of the buffer and its end marker is the one find()
\* returns for every later chunk.
C26_AcceptsLaterFrame ==
    (MultipartDone /\ ~IsException(cap_result) /\ LaterLargeFrames # { }) =>
        /\ Truthy(cap_result)
        /\ \E s \in LaterLargeFrames :
              cap_result = Str(b64encode(
                  SubSeq(stream_body, s + 1, NextEoi(stream_body, s) + 2)))

\* What the code does instead: once a candidate has been rejected (and the
\* buffer has not overflowed) no frame is returned from the stream.
C26_NothingAfterRejection ==
    (MultipartDone /\ ~IsException(cap_result) /\ rejected_at > 0) =>
        IsNone(cap_result)

\* C27 as stated: when an RTSP capture is cancelled while FFmpeg is running,
\* the temporary file is deleted and the process is killed, as on success
\* and on timeout. Violated: the file is deleted but nothing kills the
\* process.
C27_CancelledCaptureCleansUp ==
    cap_pc = "cancelled" =>
        /\ temp_file = "deleted"
        /\ process \in { "killed", "exited" }

\* What the code does: after a cancellation the file is gone and FFmpeg is
\* still running.
C27_ProcessOutlivesCancel ==
    cap_pc = "cancelled" => temp_file = "deleted" /\ process = "running"

\* FFmpeg has exited with status zero and the RTSP capturer has ended.
RtspExitedZero ==
    /\ Ran("rtsp")
    /\ cap_pc = "done"
    /\ ffmpeg_outcome.how = "exit"
    /\ ffmpeg_outcome.returncode = 0

\* C28 as stated: after FFmpeg exits with status zero the RTSP capturer
\* fails for every payload smaller than 100 bytes and succeeds for every
\* payload of 100 bytes or more. Violated: a payload of exactly 100 bytes
\* fails.
C28_ThresholdAt100 ==
    RtspExitedZero =>
        /\ Len(ffmpeg_outcome.file) < 100 => cap_result.py # "str"
        /\ Len(ffmpeg_outcome.file) >= 100 => cap_result.py = "str"

\* What the code does: success needs more than 100 bytes.
C28_ThresholdAbove100 ==
    RtspExitedZero =>
        (cap_result.py = "str" <=> Len(ffmpeg_outcome.file) > 100)

\* The error message a capture task reported: the text of the exception that
\* left it, or the 'error' of the failure dict it returned.
OwnMessage(result) ==
    IF IsException(result) THEN result.msg
    ELSE IF "error" \in DOMAIN result THEN result.error
    ELSE ""

\* The failure entries of the report.
ReportedFailures ==
    IF pc = "returned" /\ response.success
    THEN response.result.failed_captures ELSE << >>

\* C29 as stated: every failure entry of the report pairs the camera name
\* with the error message this camera's own task reported. Violated: for a
\* task that returned a failure dict the entry says "Unknown capture failure".
C29_FailureEntriesCarryOwnMessage ==
    \A k \in 1..Len(ReportedFailures) :
        \E i \in DOMAIN produced :
            /\ camera_names[i] = ReportedFailures[k].camera_name
            /\ ReportedFailures[k].error = OwnMessage(produced[i])

\* What the code does: only the text of an exception that left the task is
\* kept; every other failure is reported as "Unknown capture failure".
C29_OnlyExceptionsKeepTheirText ==
    \A k \in 1..Len(ReportedFailures) :
        \E i \in DOMAIN produced :
            /\ camera_names[i] = ReportedFailures[k].camera_name
            /\ ReportedFailures[k].error =
                  IF IsException(produced[i]) THEN produced[i].msg
                  ELSE "Unknown capture failure"

\* C30: with every capture ending, captureAll returns for every number of
\* cameras; by then every task is done, and a task is done only after it held
\* a permit, so every task got one; a task that ends, also by failing or
\* raising, gives its permit back; all MAX_CONCURRENT_CAPTURES permits are
\* free when captureAll has returned.
C30_CaptureAllReturns ==
    /\ <>(pc = "returned")
    /\ [][\A i \in DOMAIN task :
            /\ task'[i] = "holding" => task[i] \in { "created", "holding" }
            /\ task'[i] = "done" => task[i] \in { "holding", "done" }
            /\ (task[i] = "holding" /\ task'[i] = "done") =>
                    semaphore'.value = semaphore.value + 1]_<< task, semaphore >>
    /\ [](pc = "returned" /\ ~NoCameras(cameras) =>
            /\ \A i \in DOMAIN task : task[i] = "done"
            /\ semaphore.value = MAX_CONCURRENT_CAPTURES)

\* captureAll has returned for more cameras than there are permits, one of
\* the tasks having raised and one having failed, and all permits are free.
C30_Witness ==
    /\ pc = "returned"
    /\ Len(cameras) > MAX_CONCURRENT_CAPTURES
    /\ \E i \in DOMAIN produced : IsException(produced[i])
    /\ \E i \in DOMAIN produced : ~IsException(produced[i]) /\ ~produced[i].success
    /\ semaphore.value = MAX_CONCURRENT_CAPTURES

=============================================================================
